---- MODULE Spec2Model ----
(***************************************************************************)
(* State-machine model of the SystemAIR Home Assistant integration:        *)
(* the update coordinator (discovery, token refresh, push channel, poll),  *)
(* its retry helper, the command methods with their optimistic updates,    *)
(* and the entity / service paths that call them.                          *)
(***************************************************************************)
EXTENDS Integers, Sequences, FiniteSets, TLC

VARIABLES
    probe,      \* the last direct call of a retry loop: its inputs and its run
    api,        \* coordinator.api is set (TRUE) or None (FALSE)
    units,      \* coordinator.units: registered unit id -> unit record
    entryData,  \* config_entry.data: duration config key -> configured value
    saveTasks,  \* async_save_stored_time_values tasks scheduled and not yet run
    last,       \* the most recent call and what it did (NoCall: none yet)
    scope,      \* the unit and the timed mode the calls of this behaviour address
    ncalls,     \* calls made in this behaviour
    available,  \* coordinator.available
    websocket,  \* coordinator.websocket: "none", "created" (not connected), "connected"
    tokenValid, \* what authenticator.is_token_valid() answers
    pc,         \* where _async_update_data stands ("idle": no cycle running)
    queue,      \* the devices or units the running loop of the cycle has still to visit
    cycle,      \* what the current (or the last) refresh cycle met and did
    lastRun,    \* the most recent retry run of a refresh cycle
    ncycles,    \* refresh cycles started in this behaviour
    writing,    \* the writes to unit objects in progress: who writes which unit
    refreshScheduled, \* async_refresh tasks scheduled by the push callback and not yet run
    push,       \* the last push message handled, and counts of messages and refreshes
    tokens,     \* the token generation the authenticator, the API client and the push channel hold
    store,      \* the stored mapping on disk: unit id -> mode key -> minutes
    unload,     \* where async_unload_entry stands and what it has done
    registry,   \* the coordinator is in hass.data[DOMAIN]
    objects,    \* the VentilationUnit object each registered id maps to
    setup,      \* where async_setup_entry stands and what it has done
    flow,       \* the durations step of the config / options flow
    services    \* the loaded entries of the integration and hass.services for its domain

cmdVars == <<probe, entryData, saveTasks, last, scope, ncalls>>

pushVars == <<writing, refreshScheduled, push>>

persistVars == <<store, unload, registry, objects, setup, flow, services>>

storeVars == <<tokens, store, unload, registry, objects, setup, flow, services>>

coordVars == <<available, websocket, tokenValid, pc, queue, cycle, lastRun, ncycles>>

vars == <<probe, api, units, entryData, saveTasks, last, scope, ncalls,
          available, websocket, tokenValid, pc, queue, cycle, lastRun, ncycles,
          writing, refreshScheduled, push, tokens, store, unload, registry, objects,
          setup, flow, services>>

(***************************************************************************)
(* Bounds of the model.                                                    *)
(***************************************************************************)
MaxRetriesBound == 3      \* largest max_retries handed to retry_with_backoff
MaxCalls == 1             \* calls (commands, entity and service handlers) per behaviour
MaxCycles == 2            \* refresh cycles per behaviour
MaxExecutorJobs == 1      \* commands running in executor threads at a time
MaxPushMessages == 1      \* push messages delivered per behaviour
MaxStoreOps == 3          \* loads and duration mutations per behaviour
MaxActivations == 2       \* activations of a timed mode around the edits of its default
MaxConfigEdits == 1       \* edits of the configured defaults per behaviour

(***************************************************************************)
(* Python values.                                                          *)
(***************************************************************************)
None == 0 - 1             \* Python's None where the other values are naturals

(***************************************************************************)
(* Error messages are character sequences, so that str(ex).lower() and the *)
(* substring tests of the retry loops are computed, not assumed.           *)
(***************************************************************************)
UpperChars == <<"A", "B", "C", "D", "E", "F", "G", "H", "I", "J", "K", "L", "M",
                "N", "O", "P", "Q", "R", "S", "T", "U", "V", "W", "X", "Y", "Z">>
LowerChars == <<"a", "b", "c", "d", "e", "f", "g", "h", "i", "j", "k", "l", "m",
                "n", "o", "p", "q", "r", "s", "t", "u", "v", "w", "x", "y", "z">>

ToLower(c) ==
    IF \E i \in 1..Len(UpperChars) : UpperChars[i] = c
    THEN LowerChars[CHOOSE i \in 1..Len(UpperChars) : UpperChars[i] = c]
    ELSE c

StrLower(s) == [i \in 1..Len(s) |-> ToLower(s[i])]

\* Python's `needle in s` on strings.
StrContains(s, needle) ==
    \E i \in 1..(Len(s) - Len(needle) + 1) :
        SubSeq(s, i, i + Len(needle) - 1) = needle

StrAuthentication == <<"a","u","t","h","e","n","t","i","c","a","t","i","o","n">>
StrUnauthorized == <<"u","n","a","u","t","h","o","r","i","z","e","d">>

\* The exceptions the remote library raises in this model: name -> class and message.
\* "SystemairError" stands for the three classes _async_update_data catches
\* (SystemairError, TokenRefreshError, APIError); "Exception" for any other class;
\* "TypeError" for the signature mismatch set_mode_with_time falls back on.
ErrorNames == {"auth_failed", "unauthorized_401", "server_busy", "timeout"}

ErrorCls(e) ==
    CASE e = "auth_failed" -> "SystemairError"
      [] e = "unauthorized_401" -> "Exception"
      [] e = "server_busy" -> "SystemairError"
      [] e = "timeout" -> "Exception"
      [] e = "type_error" -> "TypeError"
      [] OTHER -> "Exception"

ErrorMsg(e) ==
    CASE e = "auth_failed" ->
            <<"A","u","t","h","e","n","t","i","c","a","t","i","o","n"," ",
              "f","a","i","l","e","d">>
      [] e = "unauthorized_401" ->
            <<"4","0","1"," ","U","N","A","U","T","H","O","R","I","Z","E","D">>
      [] e = "server_busy" -> <<"s","e","r","v","e","r","_","b","u","s","y">>
      [] e = "timeout" -> <<"R","e","q","u","e","s","t"," ","t","i","m","e","o","u","t">>
      [] e = "type_error" ->
            <<"u","n","e","x","p","e","c","t","e","d"," ","a","r","g","u","m","e","n","t">>
      [] OTHER -> <<>>

IsError(tag) == tag \in ErrorNames \cup {"type_error"}

\* coordinator.py 38-39 (and 346-347): the errors that are never retried.
MentionsAuth(e) ==
    LET error_str == StrLower(ErrorMsg(e))
    IN  StrContains(error_str, StrAuthentication)
            \/ StrContains(error_str, StrUnauthorized)

AuthErrors == {e \in ErrorNames \cup {"type_error"} : MentionsAuth(e)}

IsAuthError(e) == e \in AuthErrors

(***************************************************************************)
(* retry_with_backoff.  A script gives, attempt by attempt, what the       *)
(* wrapped call does: a return tag, or the name of the error it raises.    *)
(* The run is the number of calls made, the number of sleeps, and the      *)
(* outcome: the value returned or the error raised.                        *)
(***************************************************************************)
Scripts(tags, n) == [1..n -> tags]

RetryRun(outcome, ret, err, calls, sleeps) ==
    [outcome |-> outcome, ret |-> ret, err |-> err, calls |-> calls, sleeps |-> sleeps]

NoRun == RetryRun("none", "", "", 0, 0)

RECURSIVE RetryFrom(_, _, _)
RetryFrom(script, max_retries, attempt) ==
    LET o == script[attempt + 1]
    IN  IF ~IsError(o)
        THEN RetryRun("returned", o, "", attempt + 1, attempt)
        ELSE IF attempt = max_retries
        THEN RetryRun("raised", "", o, attempt + 1, attempt)
        ELSE IF IsAuthError(o)
        THEN RetryRun("raised", "", o, attempt + 1, attempt)
        ELSE RetryFrom(script, max_retries, attempt + 1)

\* A delay without the cap.
DelayUncapped(base_delay, attempt, jitter, max_delay) ==
    base_delay * 10 * (2 ^ attempt) + jitter

\* coordinator.py 42: min(base_delay * (2 ** attempt) + random.uniform(0, 1),
\* max_delay), in tenths of a second; base_delay and max_delay are in
\* seconds, the jitter drawn is in tenths.
Delay(base_delay, attempt, jitter, max_delay) ==
    LET d == base_delay * 10 * (2 ^ attempt) + jitter
    IN  IF d < max_delay * 10 THEN d ELSE max_delay * 10

\* The delays retry_with_backoff sleeps (coordinator.py 30-55), in order:
\* none after a call that returned, after the last attempt, or after an
\* authentication error; jitters[attempt + 1] is what random.uniform gives
\* after the attempt.
RECURSIVE RetryDelaysFrom(_, _, _, _, _, _)
RetryDelaysFrom(script, max_retries, attempt, base_delay, max_delay, jitters) ==
    LET o == script[attempt + 1]
    IN  IF ~IsError(o)
        THEN <<>>
        ELSE IF attempt = max_retries
        THEN <<>>
        ELSE IF IsAuthError(o)
        THEN <<>>
        ELSE <<Delay(base_delay, attempt, jitters[attempt + 1], max_delay)>>
             \o RetryDelaysFrom(script, max_retries, attempt + 1, base_delay, max_delay,
                                jitters)

\* A retry loop that stops one attempt early: range(max_retries) for range(max_retries + 1).
RetryShort(script, max_retries) ==
    IF max_retries = 0
    THEN RetryFrom(script, 0, 0)
    ELSE RetryFrom(script, max_retries - 1, 0)

RetryWithBackoff(script, max_retries) == RetryFrom(script, max_retries, 0)

(***************************************************************************)
(* Constants of const.py and of the entity modules.                        *)
(***************************************************************************)
MODE_AUTO == 0
MODE_MANUAL == 1
MODE_CROWDED == 2
MODE_REFRESH == 3
MODE_FIREPLACE == 4
MODE_AWAY == 5
MODE_HOLIDAY == 6

UserModes == MODE_AUTO..MODE_HOLIDAY

\* coordinator.py 321: the modes set_mode hands to set_mode_with_time.
timed_modes == {MODE_HOLIDAY, MODE_AWAY, MODE_FIREPLACE, MODE_REFRESH, MODE_CROWDED}

\* coordinator.py 391-398 (the library's get_mode_name_for_key): mode -> key, "" if none.
ModeNameForKey(mode) ==
    CASE mode = MODE_HOLIDAY -> "holiday"
      [] mode = MODE_AWAY -> "away"
      [] mode = MODE_FIREPLACE -> "fireplace"
      [] mode = MODE_REFRESH -> "refresh"
      [] mode = MODE_CROWDED -> "crowded"
      [] OTHER -> ""

\* coordinator.py 431-440: mode -> duration config key, "" if none.
ModeToDurationConfig(mode) ==
    CASE mode = MODE_HOLIDAY -> "duration_holiday"
      [] mode = MODE_AWAY -> "duration_away"
      [] mode = MODE_FIREPLACE -> "duration_fireplace"
      [] mode = MODE_REFRESH -> "duration_refresh"
      [] mode = MODE_CROWDED -> "duration_crowded"
      [] OTHER -> ""

\* A conversion that takes the holiday default for hours.
convert_holiday_as_hours(duration_config_key, value) ==
    IF duration_config_key \in {"duration_holiday", "duration_away", "duration_crowded"}
    THEN value * 60
    ELSE value

\* const.py 81-93.
convert_duration_to_minutes(duration_config_key, value) ==
    IF duration_config_key = "duration_holiday"
    THEN value * 24 * 60
    ELSE IF duration_config_key \in {"duration_away", "duration_crowded"}
    THEN value * 60
    ELSE value

\* dict.get(key): None when the key is absent.
DictGet(d, key) == IF key \in DOMAIN d THEN d[key] ELSE None

\* d[key] = value on a dict.
DictSet(d, key, value) ==
    [k \in (DOMAIN d) \cup {key} |-> IF k = key THEN value ELSE d[k]]

EmptyDict == [k \in {} |-> None]

(***************************************************************************)
(* Units.  A unit record holds the fields of VentilationUnit the           *)
(* integration reads and writes; temperatures are in tenths of a degree.   *)
(***************************************************************************)
UnitIds == {"u1", "u2"}
UnknownIds == {"ghost"}

Unit(user_mode, airflow, setpoint, user_mode_times) ==
    [user_mode |-> user_mode, airflow |-> airflow, setpoint |-> setpoint,
     user_mode_times |-> user_mode_times]

\* A remote call made by a command: the method, its arguments, and what the
\* call did (the tag it returned or the error it raised).
RemoteCall(fn, unit_id, a, b, out) ==
    [fn |-> fn, unit |-> unit_id, a |-> a, b |-> b, out |-> out]

\* What a coordinator method did: the units afterwards, the save tasks it
\* scheduled, the value it returned (as truthiness) and the remote calls it made.
Effect(us, saves, result, calls) ==
    [units |-> us, saves |-> saves, result |-> result, calls |-> calls]

\* set_mode's inline loop (coordinator.py 335-362): `for attempt in range(4)`.
RECURSIVE SetModeLoopFrom(_, _)
SetModeLoopFrom(script, attempt) ==
    LET o == script[attempt + 1]
    IN  IF ~IsError(o)
        THEN RetryRun("returned", o, "", attempt + 1, attempt)
        ELSE IF attempt = 3
        THEN RetryRun("raised", "", o, attempt + 1, attempt)
        ELSE IF IsAuthError(o)
        THEN RetryRun("raised", "", o, attempt + 1, attempt)
        ELSE SetModeLoopFrom(script, attempt + 1)

\* A loop that goes on to the next attempt after a falsy result as well.
RECURSIVE SetModeLoopUntilTrueFrom(_, _)
SetModeLoopUntilTrueFrom(script, attempt) ==
    LET o == script[attempt + 1]
    IN  IF o = "true" \/ attempt = 3
        THEN IF IsError(o)
             THEN RetryRun("raised", "", o, attempt + 1, attempt)
             ELSE RetryRun("returned", o, "", attempt + 1, attempt)
        ELSE IF IsAuthError(o)
        THEN RetryRun("raised", "", o, attempt + 1, attempt)
        ELSE SetModeLoopUntilTrueFrom(script, attempt + 1)

SetModeLoopUntilTrue(script) == SetModeLoopUntilTrueFrom(script, 0)

SetModeLoop(script) == SetModeLoopFrom(script, 0)

\* The config entry set_mode_with_time finds for a unit (coordinator.py 423-429):
\* the entry of the coordinator that has the unit; None when no coordinator has it.
ConfigDuration(unit_id, mode) ==
    LET duration_config_key == ModeToDurationConfig(mode)
    IN  IF unit_id \in DOMAIN units
            /\ duration_config_key # ""
            /\ duration_config_key \in DOMAIN entryData
        THEN convert_duration_to_minutes(duration_config_key,
                                         entryData[duration_config_key])
        ELSE None

\* coordinator.py 403-444: the duration set_mode_with_time sends.
ResolveTimeConfigFirst(unit, unit_id, mode, time_minutes) ==
    IF time_minutes # None
    THEN time_minutes
    ELSE IF ConfigDuration(unit_id, mode) # None
    THEN ConfigDuration(unit_id, mode)
    ELSE IF ModeNameForKey(mode) # ""
    THEN DictGet(unit.user_mode_times, ModeNameForKey(mode))
    ELSE None

ResolveTime(unit, unit_id, mode, time_minutes) ==
    LET mode_key == ModeNameForKey(mode)
        stored_time == IF time_minutes = None /\ mode_key # ""
                       THEN DictGet(unit.user_mode_times, mode_key)
                       ELSE None
        t1 == IF stored_time # None THEN stored_time ELSE time_minutes
    IN  IF t1 = None THEN ConfigDuration(unit_id, mode) ELSE t1

\* set_mode_with_time (coordinator.py 368-470).  script[1] is what
\* set_user_mode(api, mode, time) does, script[2] what the fallback
\* set_user_mode(api, mode) does after a TypeError.
SetModeWithTimeEff(us, unit_id, mode, time_minutes, script) ==
    IF ~(unit_id \in DOMAIN us /\ api)
    THEN Effect(us, 0, FALSE, <<>>)
    ELSE
    LET unit == us[unit_id]
        mode_key == ModeNameForKey(mode)
        time == ResolveTime(unit, unit_id, mode, time_minutes)
        call1 == RemoteCall("set_user_mode", unit_id, mode, time, script[1])
        call2 == RemoteCall("set_user_mode", unit_id, mode, None, script[2])
        withMode == [unit EXCEPT !.user_mode = mode]
    IN  IF script[1] = "type_error"
        THEN IF script[2] = "true"
             THEN Effect([us EXCEPT ![unit_id] = withMode], 0, TRUE, <<call1, call2>>)
             ELSE Effect(us, 0, FALSE, <<call1, call2>>)
        ELSE IF script[1] = "true"
        THEN IF time # None /\ mode_key # ""
             THEN Effect([us EXCEPT ![unit_id] =
                            [withMode EXCEPT !.user_mode_times =
                                DictSet(unit.user_mode_times, mode_key, time)]],
                         1, TRUE, <<call1>>)
             ELSE Effect([us EXCEPT ![unit_id] = withMode], 0, TRUE, <<call1>>)
        ELSE Effect(us, 0, FALSE, <<call1>>)

\* set_mode (coordinator.py 310-366).
SetModeEff(us, unit_id, mode, script) ==
    IF mode \in timed_modes
    THEN SetModeWithTimeEff(us, unit_id, mode, None, script)
    ELSE IF ~(unit_id \in DOMAIN us /\ api)
    THEN Effect(us, 0, FALSE, <<>>)
    ELSE
    LET run == SetModeLoop(script)
        calls == [i \in 1..run.calls |->
                    RemoteCall("set_user_mode", unit_id, mode, None, script[i])]
    IN  IF run.outcome = "returned" /\ run.ret = "true"
        THEN Effect([us EXCEPT ![unit_id].user_mode = mode], 0, TRUE, calls)
        ELSE Effect(us, 0, FALSE, calls)

\* A clamp that has the upper limit only.
ClampAirflowUpperOnly(speed) == IF speed < 5 THEN speed ELSE 5

\* coordinator.py 496.
ClampAirflow(speed) ==
    LET lo == IF speed < 5 THEN speed ELSE 5
    IN  IF lo > 1 THEN lo ELSE 1

\* set_fan_speed that puts the unit in Manual along with the level.
SetFanSpeedSwitchesManual(us, unit_id, speed, script) ==
    IF ~(unit_id \in DOMAIN us /\ api)
    THEN Effect(us, 0, FALSE, <<>>)
    ELSE
    LET calls == <<RemoteCall("set_value", unit_id, None, ClampAirflow(speed), script[1])>>
    IN  IF script[1] = "true"
        THEN Effect([us EXCEPT ![unit_id].airflow = ClampAirflow(speed),
                               ![unit_id].user_mode = MODE_MANUAL], 0, TRUE, calls)
        ELSE Effect(us, 0, FALSE, calls)

\* set_fan_speed that writes the level before it looks at the result.
SetFanSpeedEager(us, unit_id, speed, script) ==
    IF ~(unit_id \in DOMAIN us /\ api)
    THEN Effect(us, 0, FALSE, <<>>)
    ELSE Effect([us EXCEPT ![unit_id].airflow = ClampAirflow(speed)], 0,
                script[1] = "true",
                <<RemoteCall("set_value", unit_id, None, ClampAirflow(speed), script[1])>>)

\* set_fan_speed (coordinator.py 472-526).
SetFanSpeedEff(us, unit_id, speed, script) ==
    IF ~(unit_id \in DOMAIN us /\ api)
    THEN Effect(us, 0, FALSE, <<>>)
    ELSE
    LET airflow_value == ClampAirflow(speed)
        calls == <<RemoteCall("set_value", unit_id, None, airflow_value, script[1])>>
    IN  IF script[1] = "true"
        THEN Effect([us EXCEPT ![unit_id].airflow = airflow_value], 0, TRUE, calls)
        ELSE Effect(us, 0, FALSE, calls)

\* set_temperature that leaves the setpoint for the next poll to bring.
SetTemperatureNoWrite(us, unit_id, temperature, script) ==
    IF ~(unit_id \in DOMAIN us /\ api)
    THEN Effect(us, 0, FALSE, <<>>)
    ELSE Effect(us, 0, script[1] = "true",
                <<RemoteCall("set_temperature", unit_id, temperature, None, script[1])>>)

\* set_temperature (coordinator.py 528-547); temperature in tenths of a degree,
\* so temp_tenths = int(temperature * 10) is the number itself.
SetTemperatureEff(us, unit_id, temperature, script) ==
    IF ~(unit_id \in DOMAIN us /\ api)
    THEN Effect(us, 0, FALSE, <<>>)
    ELSE
    LET temp_tenths == temperature
        calls == <<RemoteCall("set_temperature", unit_id, temp_tenths, None, script[1])>>
    IN  IF script[1] = "true"
        THEN Effect([us EXCEPT ![unit_id].setpoint = temperature], 0, TRUE, calls)
        ELSE Effect(us, 0, FALSE, calls)

(***************************************************************************)
(* Entity and service paths.  Each runs a coordinator method in the        *)
(* executor and then writes its own optimistic update on the same unit     *)
(* object (entity._unit is coordinator.units[unit_id]).                    *)
(***************************************************************************)
\* select.py 22-30, 51: option name -> mode value.
MODE_OPTIONS == [m \in UserModes |->
    CASE m = MODE_AUTO -> "Auto"
      [] m = MODE_MANUAL -> "Manual"
      [] m = MODE_CROWDED -> "Crowded"
      [] m = MODE_REFRESH -> "Refresh"
      [] m = MODE_FIREPLACE -> "Fireplace"
      [] m = MODE_AWAY -> "Away"
      [] m = MODE_HOLIDAY -> "Holiday"]

MODE_NAME_TO_MODE_VALUE(option) == CHOOSE m \in UserModes : MODE_OPTIONS[m] = option

\* const.py 71-79.
MODE_NAME_TO_VALUE(mode_name) ==
    CASE mode_name = "auto" -> MODE_AUTO
      [] mode_name = "manual" -> MODE_MANUAL
      [] mode_name = "crowded" -> MODE_CROWDED
      [] mode_name = "refresh" -> MODE_REFRESH
      [] mode_name = "fireplace" -> MODE_FIREPLACE
      [] mode_name = "away" -> MODE_AWAY
      [] mode_name = "holiday" -> MODE_HOLIDAY

ModeNames == {"auto", "manual", "crowded", "refresh", "fireplace", "away", "holiday"}

\* select.py 36, 39-45.
AIRFLOW_SELECTABLE_OPTIONS == {"Low", "Normal", "High", "Refresh"}

AIRFLOW_NAME_TO_LEVEL(option) ==
    CASE option = "Off" -> 1
      [] option = "Low" -> 2
      [] option = "Normal" -> 3
      [] option = "High" -> 4
      [] option = "Refresh" -> 5

\* The optimistic write `self._unit.user_mode = mode_value` an entity makes when
\* the coordinator method returned a truthy result.
WithEntityMode(eff, unit_id, mode) ==
    IF eff.result
    THEN [eff EXCEPT !.units = [eff.units EXCEPT ![unit_id].user_mode = mode]]
    ELSE eff

\* SystemairOperationModeSelect.async_select_option (select.py 102-119).
OperationModeSelectEff(us, unit_id, option, script) ==
    LET mode_value == MODE_NAME_TO_MODE_VALUE(option)
    IN  WithEntityMode(SetModeEff(us, unit_id, mode_value, script), unit_id, mode_value)

\* async_handle_set_user_mode (services.py 98-160), for an entity whose device is
\* the unit; the handler returns early when the unit is not in coordinator.units.
ServiceSetUserModeEff(us, unit_id, mode_name, script) ==
    IF unit_id \notin DOMAIN us
    THEN Effect(us, 0, FALSE, <<>>)
    ELSE
    LET mode_value == MODE_NAME_TO_VALUE(mode_name)
        unit == us[unit_id]
        mode_key == ModeNameForKey(mode_value)
        stored_time == IF mode_key # "" THEN DictGet(unit.user_mode_times, mode_key)
                       ELSE None
        duration_config_key == ModeToDurationConfig(mode_value)
        time_minutes ==
            IF stored_time # None
            THEN stored_time
            ELSE IF duration_config_key # "" /\ duration_config_key \in DOMAIN entryData
            THEN convert_duration_to_minutes(duration_config_key,
                                             entryData[duration_config_key])
            ELSE None
    IN  SetModeWithTimeEff(us, unit_id, mode_value, time_minutes, script)

\* SystemairClimate.async_set_preset_mode (climate.py 199-272).
ClimatePresetEff(us, unit_id, preset_mode, script) ==
    LET mode_value == MODE_NAME_TO_VALUE(preset_mode)
        time_minutes == ConfigDuration(unit_id, mode_value)
    IN  IF time_minutes # None
        THEN WithEntityMode(SetModeWithTimeEff(us, unit_id, mode_value, time_minutes, script),
                            unit_id, mode_value)
        ELSE WithEntityMode(SetModeEff(us, unit_id, mode_value, script),
                            unit_id, mode_value)

\* SystemairAirflowLevelSelect.async_select_option, the Refresh branch
\* (select.py 180-224).
AirflowSelectRefreshEff(us, unit_id, script) ==
    LET level == AIRFLOW_NAME_TO_LEVEL("Refresh")
        time_minutes == ConfigDuration(unit_id, MODE_REFRESH)
        eff == IF time_minutes # None
               THEN SetModeWithTimeEff(us, unit_id, MODE_REFRESH, time_minutes, script)
               ELSE SetModeEff(us, unit_id, MODE_REFRESH, script)
    IN  IF eff.result
        THEN [eff EXCEPT !.units =
                [eff.units EXCEPT ![unit_id].user_mode = MODE_REFRESH,
                                  ![unit_id].airflow = level]]
        ELSE eff

\* SystemairAirflowLevelSelect.async_select_option, Low / Normal / High
\* (select.py 226-259): Manual first when the unit is not in Manual.
AirflowSelectManualEff(us, unit_id, option, script, script2) ==
    LET level == AIRFLOW_NAME_TO_LEVEL(option)
        set_manual_first == us[unit_id].user_mode # MODE_MANUAL
        modeEff == SetModeEff(us, unit_id, MODE_MANUAL, script)
        us1 == IF set_manual_first
               THEN [modeEff.units EXCEPT ![unit_id].user_mode = MODE_MANUAL]
               ELSE us
        calls1 == IF set_manual_first THEN modeEff.calls ELSE <<>>
        fanEff == SetFanSpeedEff(us1, unit_id, level, script2)
    IN  IF set_manual_first /\ ~modeEff.result
        THEN Effect(modeEff.units, 0, FALSE, modeEff.calls)
        ELSE IF fanEff.result
        THEN Effect([fanEff.units EXCEPT ![unit_id].airflow = level], 0, TRUE,
                    calls1 \o fanEff.calls)
        ELSE Effect(fanEff.units, 0, FALSE, calls1 \o fanEff.calls)

\* climate.py 40-45.
FAN_MODES == {"low", "medium", "high"}

FAN_MODE_TO_AIRFLOW_LEVEL(fan_mode) ==
    CASE fan_mode = "low" -> 2
      [] fan_mode = "medium" -> 3
      [] fan_mode = "high" -> 4

\* SystemairClimate.async_set_fan_mode (climate.py 178-197): set_fan_speed
\* with the level of the fan mode; the entity writes nothing itself.
ClimateFanModeEff(us, unit_id, fan_mode, script) ==
    IF fan_mode \in FAN_MODES
    THEN SetFanSpeedEff(us, unit_id, FAN_MODE_TO_AIRFLOW_LEVEL(fan_mode), script)
    ELSE Effect(us, 0, FALSE, <<>>)

(***************************************************************************)
(* Inputs the model draws.                                                 *)
(***************************************************************************)
\* What a wrapped call of retry_with_backoff does on one attempt.
RetryTags == {"ok"} \cup ErrorNames

\* What a remote command does on one attempt: a truthy or falsy result, or an error.
CmdTags == {"true", "false", "auth_failed", "server_busy"}

\* Four attempts of a remote that answers "true" to any call made after one that
\* did not report busy (the entries a correct loop never reads are fixed).
LoopScripts ==
    {s \in Scripts(CmdTags, 4) : \A i \in 1..3 : s[i] # "server_busy" => s[i + 1] = "true"}

\* The call with a duration, and the call without one made after a TypeError.
TimeScripts ==
    {s \in Scripts(CmdTags \cup {"type_error"}, 2) : s[1] # "type_error" => s[2] = "true"}

OneScripts == Scripts(CmdTags, 1)

ModeScripts(mode) == IF mode \in timed_modes THEN TimeScripts ELSE LoopScripts

\* The ids and modes the calls of a behaviour use: the unit in scope or an id
\* that is not registered; Auto, Manual or the timed mode in scope.
IdInputs == {scope.unit} \cup UnknownIds
ModeInputs == {MODE_AUTO, MODE_MANUAL, scope.mode}
ModeNameInputs == {n \in {"auto", "manual", "crowded", "refresh", "fireplace", "away",
                          "holiday"} : MODE_NAME_TO_VALUE(n) \in ModeInputs}

ExplicitDurations == {45}
SpeedInputs == {0 - 3, 0, 1, 2, 5, 6}
TemperatureInputs == {215}

\* config_entry.data as the config flow writes it (const.py 22-26), and without
\* the duration keys (an entry made before the durations step existed).
ConfigDefaults ==
    [k \in {"duration_holiday", "duration_away", "duration_fireplace",
            "duration_refresh", "duration_crowded"} |->
        CASE k = "duration_holiday" -> 1
          [] k = "duration_away" -> 2
          [] k = "duration_fireplace" -> 15
          [] k = "duration_refresh" -> 30
          [] k = "duration_crowded" -> 1]

\* Defaults a user changed in the options flow.
ConfigChanged ==
    [k \in DOMAIN ConfigDefaults |->
        CASE k = "duration_holiday" -> 3
          [] k = "duration_away" -> 5
          [] k = "duration_fireplace" -> 20
          [] k = "duration_refresh" -> 45
          [] k = "duration_crowded" -> 4]

ConfigChoices == {ConfigDefaults, ConfigChanged, EmptyDict}

TimedKeys == {"holiday", "away", "fireplace", "refresh", "crowded"}

\* Units as a first refresh and a load of stored durations can leave them: the
\* initial fetch failed and nothing was stored; fetched, no duration stored;
\* fetched, and a duration of 20 minutes stored for every timed mode.
InitialUnits ==
    {Unit(None, None, None, EmptyDict),
     Unit(MODE_AUTO, 3, 200, [k \in TimedKeys |-> None]),
     Unit(MODE_MANUAL, 3, 200, [k \in TimedKeys |-> 20])}

NoCall == [op |-> "none", unit |-> "", arg |-> None, time |-> None,
           result |-> FALSE, calls |-> <<>>, pre |-> EmptyDict, preSaves |-> 0,
           key |-> ""]

\* The delays of a direct call were not recorded.
NoTiming == [base_delay |-> 0, max_delay |-> 0, jitters |-> <<>>, delays |-> <<>>]

NoProbe == [max_retries |-> 0, script |-> <<>>, run |-> NoRun, timing |-> NoTiming]

\* No status fetch of the poll loop is on its way.  A fetch keeps its stage
\* ("issued", then "merged"), the unit, the run of the fetch with its retries,
\* the status the device answered, and the numbers of push messages received
\* and of calls made when the fetch was issued.
NoFetch ==
    [stage |-> "none", unit |-> "", run |-> NoRun, status |-> EmptyDict,
     received |-> 0, calls |-> 0]

\* The record of a refresh cycle: what authenticate and get_account_devices did
\* ("" when the cycle did not call them), the remote calls that raised an
\* authentication error, whether a call was made again after such an error,
\* whether the push channel failed to connect and in how many attempts, the
\* units whose poll was attempted, the status each successful poll fetched, the
\* units whose poll failed on every attempt, the call whose exception ended the
\* cycle, the cycle's result, the units and coordinator.available as they
\* were when the poll loop began, the steps of the token branch and the polls
\* in the order they were made, the token the validity check found expired (0
\* when it found none), the tokens the polls were issued with, the devices the
\* enumeration gave, and for each device the discovery loop has registered
\* what its initial fetch did and the status the device would answer (kept
\* until the cycle goes on to the push channel), the shape of the
\* enumeration's response, and the status fetch that is on its way.
NoCycle ==
    [authOut |-> "", enumOut |-> "", authIn |-> {}, authRetried |-> FALSE,
     pushFailed |-> "", pushAttempts |-> 0, polled |-> {}, merged |-> EmptyDict,
     pollFailed |-> {}, raisedBy |-> "", result |-> "none",
     prePoll |-> EmptyDict, prePollAvailable |-> FALSE,
     trace |-> <<>>, foundExpired |-> 0, pollTokens |-> {},
     devices |-> <<>>, initial |-> EmptyDict, shape |-> "", inflight |-> NoFetch]

NoLastRun == [fn |-> "", unit |-> "", run |-> NoRun]

\* No push message yet: the last message handled, what became of it ("dropped";
\* "merging", "scheduled" once merged, "refreshing" once the refresh it
\* scheduled has begun), the messages received, those of them that had one of
\* the two shapes and the id of a registered unit, and the scheduled refreshes begun.
NoPush ==
    [message |-> [shape |-> "none", id |-> "", status |-> EmptyDict],
     stage |-> "none", received |-> 0, known |-> 0, started |-> 0]

\* The access token the authenticator holds, the one the API client sends and
\* the one the push channel object was created with, as token generations (0:
\* none yet).
NoTokens == [auth |-> 0, api |-> 0, ws |-> 0]

LiveTokens == [auth |-> 1, api |-> 1, ws |-> 1]

\* A refresh that leaves the API client with the token it had.
RefreshedTokensStaleClient(t) == [t EXCEPT !.auth = @ + 1]

\* coordinator.py 225-226: refresh_access_token, then api.update_token.
RefreshedTokens(t) == [t EXCEPT !.auth = @ + 1, !.api = t.auth + 1]

\* No VentilationUnit constructed yet: the object each registered id maps to
\* (the n-th object constructed) and the number of objects constructed.
NoObjects == [of |-> EmptyDict, made |-> 0]

\* coordinator.py 145 and 160: a VentilationUnit is constructed and registered.
NewObject(o, unit_id) == [of |-> DictSet(o.of, unit_id, o.made + 1), made |-> o.made + 1]

\* The objects of units a discovery has registered, in the order of registration.
ObjectsOf(us) ==
    [of |-> [u \in DOMAIN us |-> IF u = "u1" THEN 1 ELSE Cardinality(DOMAIN us)],
     made |-> Cardinality(DOMAIN us)]

\* The store of a new installation: nothing on disk, no save run yet.
NoStore == [disk |-> EmptyDict, saved |-> 0]

\* async_unload_entry has not been called: the steps it has completed, what
\* it has done in order, the units as they were when it began, what its save
\* left on disk, and the value it returned.
NoUnload ==
    [at |-> 0, order |-> <<>>, pre |-> EmptyDict, written |-> EmptyDict, result |-> "none"]

\* async_setup_entry has registered the coordinator and is about to load the
\* stored durations: the steps it has completed, what it has done in order,
\* and the value it returned.
NoSetup == [at |-> 0, order |-> <<>>, result |-> "none"]

\* No durations step has been submitted.
NoFlow == [duration_data |-> EmptyDict, errors |-> {}]

\* The service registry is followed in the behaviours of several entries
\* only: no entry followed, no service registered, no service call made.
\* loaded is the entries with a coordinator in hass.data[DOMAIN], failed those
\* of them whose platforms did not unload.  A
\* call keeps the service, the unit of the entity it named, the entries that
\* were loaded, what became of it and the entry whose coordinator handled it.
NoServiceCall == [service |-> "", unit |-> "", loaded |-> {}, result |-> "none", by |-> ""]

NoServices ==
    [loaded |-> {}, failed |-> {}, registered |-> {}, handler |-> "",
     call |-> NoServiceCall]

\* async_setup_entry has returned True.
SetupDone == [at |-> 3, order |-> <<"load_ok", "platforms", "services">>, result |-> "true"]

(***************************************************************************)
(* Actions: one per command, entity handler and service handler.  A call   *)
(* runs as one step and leaves its record in `last`.                       *)
(***************************************************************************)
\* `last` keeps the call's inputs, its result, the remote calls it made, and
\* the units and the count of scheduled saves as they were before the call.
Apply(op, unit_id, arg, time, eff) ==
    /\ ncalls' = ncalls + 1
    /\ units' = eff.units
    /\ saveTasks' = saveTasks + eff.saves
    /\ last' = [op |-> op, unit |-> unit_id, arg |-> arg, time |-> time,
                result |-> eff.result, calls |-> eff.calls,
                pre |-> units, preSaves |-> saveTasks, key |-> ""]
    /\ UNCHANGED <<probe, api, entryData, scope, coordVars, pushVars, storeVars>>

\* A behaviour makes MaxCalls calls, or one direct call of retry_with_backoff.
CanCall == ncalls < MaxCalls /\ probe = NoProbe

SetMode ==
    /\ CanCall
    /\ \E unit_id \in IdInputs, mode \in ModeInputs :
        \E script \in ModeScripts(mode) :
            Apply("set_mode", unit_id, mode, None, SetModeEff(units, unit_id, mode, script))

SetModeWithTime ==
    /\ CanCall
    /\ \E unit_id \in IdInputs, mode \in ModeInputs,
       time_minutes \in ExplicitDurations \cup {None} :
        \E script \in TimeScripts :
            Apply("set_mode_with_time", unit_id, mode, time_minutes,
                  SetModeWithTimeEff(units, unit_id, mode, time_minutes, script))

SetFanSpeed ==
    /\ CanCall
    /\ \E unit_id \in IdInputs, speed \in SpeedInputs, script \in OneScripts :
        Apply("set_fan_speed", unit_id, speed, None,
              SetFanSpeedEff(units, unit_id, speed, script))

SetTemperature ==
    /\ CanCall
    /\ \E unit_id \in IdInputs, temperature \in TemperatureInputs, script \in OneScripts :
        Apply("set_temperature", unit_id, temperature, None,
              SetTemperatureEff(units, unit_id, temperature, script))

\* The entities exist for the registered units only.
EntityIds == {scope.unit} \cap DOMAIN units

OperationModeSelect ==
    /\ CanCall
    /\ \E unit_id \in EntityIds, mode \in ModeInputs :
        \E script \in ModeScripts(mode) :
            Apply("operation_mode_select", unit_id, mode, None,
                  OperationModeSelectEff(units, unit_id, MODE_OPTIONS[mode], script))

ServiceSetUserMode ==
    /\ CanCall
    /\ \E unit_id \in EntityIds, mode_name \in ModeNameInputs, script \in TimeScripts :
        Apply("service_set_user_mode", unit_id, MODE_NAME_TO_VALUE(mode_name), None,
              ServiceSetUserModeEff(units, unit_id, mode_name, script))

ClimatePreset ==
    /\ CanCall
    /\ \E unit_id \in EntityIds, preset_mode \in ModeNameInputs :
        \E script \in IF ConfigDuration(unit_id, MODE_NAME_TO_VALUE(preset_mode)) # None
                      THEN TimeScripts
                      ELSE ModeScripts(MODE_NAME_TO_VALUE(preset_mode)) :
            Apply("climate_preset", unit_id, MODE_NAME_TO_VALUE(preset_mode), None,
                  ClimatePresetEff(units, unit_id, preset_mode, script))

AirflowSelectRefresh ==
    /\ CanCall
    /\ \E unit_id \in EntityIds, script \in TimeScripts :
        Apply("airflow_select", unit_id, MODE_REFRESH, None,
              AirflowSelectRefreshEff(units, unit_id, script))

\* The options of the airflow select that name a manual level.
ManualOptions == {"Low", "Normal", "High"}

AirflowSelectManual ==
    /\ CanCall
    /\ \E unit_id \in EntityIds, option \in ManualOptions :
        \E script \in LoopScripts, script2 \in OneScripts :
            /\ units[unit_id].user_mode = MODE_MANUAL => script = <<"true", "true", "true", "true">>
            /\ Apply("airflow_select_manual", unit_id, AIRFLOW_NAME_TO_LEVEL(option), None,
                     AirflowSelectManualEff(units, unit_id, option, script, script2))

ClimateFanMode ==
    /\ CanCall
    /\ \E unit_id \in EntityIds, fan_mode \in FAN_MODES \cup {"off"}, script \in OneScripts :
        Apply("climate_fan_mode", unit_id,
              IF fan_mode \in FAN_MODES THEN FAN_MODE_TO_AIRFLOW_LEVEL(fan_mode) ELSE 1, None,
              ClimateFanModeEff(units, unit_id, fan_mode, script))

(***************************************************************************)
(* retry_with_backoff called directly on a scripted function.              *)
(***************************************************************************)
CallRetryWithBackoff ==
    /\ ncalls = 0
    /\ probe = NoProbe
    /\ \E max_retries \in 0..MaxRetriesBound :
        \E script \in Scripts(RetryTags, max_retries + 1) :
            /\ ncalls' = ncalls + 1
            /\ probe' = [max_retries |-> max_retries, script |-> script,
                         run |-> RetryWithBackoff(script, max_retries),
                         timing |-> NoTiming]
            /\ UNCHANGED <<api, units, entryData, saveTasks, last, scope, coordVars, pushVars, storeVars>>

\* What a call does on one attempt, for the calls whose delays are recorded.
TimedTags == {"ok", "auth_failed", "timeout"}

\* random.uniform(0, 1) in tenths: the two ends and the middle.
JitterInputs == {0, 5, 10}

\* base_delay as the callers give it (coordinator.py 154, 213, 294), and
\* max_delay as the default and as a cap the delays reach.
BaseDelayInputs == {1, 2}
MaxDelayInputs == {3, 60}

\* retry_with_backoff called directly, with the delays it sleeps recorded.
CallRetryTimed ==
    /\ ncalls = 0
    /\ probe = NoProbe
    /\ \E max_retries \in 0..MaxRetriesBound, base_delay \in BaseDelayInputs,
          max_delay \in MaxDelayInputs :
        \E script \in Scripts(TimedTags, max_retries + 1),
           jitters \in [1..max_retries -> JitterInputs] :
            /\ ncalls' = ncalls + 1
            /\ probe' = [max_retries |-> max_retries, script |-> script,
                         run |-> RetryWithBackoff(script, max_retries),
                         timing |-> [base_delay |-> base_delay, max_delay |-> max_delay,
                                     jitters |-> jitters,
                                     delays |-> RetryDelaysFrom(script, max_retries, 0,
                                                                base_delay, max_delay,
                                                                jitters)]]
            /\ UNCHANGED <<api, units, entryData, saveTasks, last, scope, coordVars, pushVars, storeVars>>

(***************************************************************************)
(* The refresh cycle, _async_update_data (coordinator.py 85-308), one      *)
(* action per remote step.                                                 *)
(***************************************************************************)
Device(id, name) == [id |-> id, name |-> name]

\* What get_account_devices does: a response in one of the two envelopes, a
\* response with a device that has no name, a response without devices (an
\* "errors" key only, no "data" key, "data": null, "data": {}, an account
\* without "devices", an empty list), or an error.
EnumOutcomes ==
    {[shape |-> "GetAccountDevices", err |-> "",
      devices |-> <<Device("u1", "Hall"), Device("u2", "Attic")>>],
     [shape |-> "account.devices", err |-> "", devices |-> <<Device("u1", "Hall")>>],
     [shape |-> "GetAccountDevices", err |-> "",
      devices |-> <<Device("u1", "Hall"), Device("u2", "")>>],
     [shape |-> "errors", err |-> "", devices |-> <<>>]}
    \cup {[shape |-> sh, err |-> "", devices |-> <<>>] :
            sh \in {"no_data", "data_null", "empty_data", "account_no_devices",
                    "GetAccountDevices"}}
    \cup {[shape |-> "raises", err |-> e, devices |-> <<>>] :
            e \in {"auth_failed", "unauthorized_401", "timeout"}}

\* coordinator.py 110-133: the devices found in a response.
DevicesOf(out) ==
    IF out.shape = "GetAccountDevices"
    THEN out.devices
    ELSE IF out.shape = "account.devices"
    THEN out.devices
    ELSE <<>>

\* get_account_devices with its errors read as a response without devices.
EnumerateTolerant(out) ==
    [raised |-> FALSE, err |-> "",
     devices |-> IF out.shape = "raises" THEN <<>> ELSE DevicesOf(out)]

\* coordinator.py 97-133: the call raises, or gives the devices to register.
\* With "data": null, devices_response.get("data", {}) is None and the test
\* `"GetAccountDevices" in data` (line 116) raises a TypeError.
EnumerateStep(out) ==
    IF out.shape = "raises"
    THEN [raised |-> TRUE, err |-> out.err, devices |-> <<>>]
    ELSE IF out.shape = "data_null"
    THEN [raised |-> TRUE, err |-> "type_error", devices |-> <<>>]
    ELSE [raised |-> FALSE, err |-> "", devices |-> DevicesOf(out)]

\* The status blobs fetch_device_status returns.
Statuses ==
    {[user_mode |-> MODE_MANUAL, airflow |-> 3, setpoint |-> 200],
     [user_mode |-> MODE_AUTO, airflow |-> 2, setpoint |-> 210]}

\* unit.update_from_api(status) at coordinator.py 156 and 298.
update_from_api(unit, status) ==
    [unit EXCEPT !.user_mode = status.user_mode, !.airflow = status.airflow,
                 !.setpoint = status.setpoint]

\* VentilationUnit(device_id, device_name) at coordinator.py 145.
NewUnit == Unit(None, None, None, EmptyDict)

\* What a fetch or a connect does over max_retries + 1 attempts: busy, an
\* authorization error, or success (the entries after the first that is not
\* busy are never read and are fixed).
RemoteScripts(max_retries) ==
    {s \in Scripts({"ok", "unauthorized_401", "server_busy"}, max_retries + 1) :
        \A i \in 1..max_retries : s[i] # "server_busy" => s[i + 1] = "ok"}

\* What authenticate and refresh_access_token raise.
SessionErrors == {"auth_failed", "unauthorized_401", "timeout"}

AuthRaised(script, run) == \E i \in 1..run.calls : MentionsAuth(script[i])

AuthRetried(script, run) == \E i \in 1..(run.calls - 1) : MentionsAuth(script[i])

\* coordinator.py 283: self.units.items(), in the order of registration.
UnitOrder == SelectSeq(<<"u1", "u2">>, LAMBDA u : u \in DOMAIN units)

\* coordinator.py 305: the exception classes the cycle turns into UpdateFailed.
CaughtClasses == {"SystemairError", "TokenRefreshError", "APIError"}

\* An exception leaves the try block (coordinator.py 305-308): a caught class
\* clears available and raises UpdateFailed; any other class propagates as it is.
Raise(c, fn, err) ==
    /\ available' = IF ErrorCls(err) \in CaughtClasses THEN FALSE ELSE available
    /\ cycle' = [c EXCEPT !.raisedBy = fn,
                          !.result = IF ErrorCls(err) \in CaughtClasses
                                     THEN "UpdateFailed" ELSE "raised"]
    /\ pc' = "idle"
    /\ queue' = <<>>

\* The poll loop begins (coordinator.py 283).
EnterPoll(c) ==
    /\ pc' = "poll"
    /\ queue' = UnitOrder
    /\ cycle' = [c EXCEPT !.prePoll = units, !.prePollAvailable = available]

\* A cycle that goes through authentication and discovery every time.
CycleEntryAlwaysDiscovers(session) == "authenticate"

\* coordinator.py 88: `if not self.api` guards authentication and discovery.
CycleEntry(session) == IF ~session THEN "authenticate" ELSE "token"

StartCycle ==
    /\ pc = "idle"
    /\ ncycles < MaxCycles
    /\ ncycles' = ncycles + 1
    /\ cycle' = [NoCycle EXCEPT !.result = "running"]
    /\ lastRun' = NoLastRun
    /\ pc' = CycleEntry(api)
    /\ UNCHANGED <<api, units, available, websocket, tokenValid, queue, cmdVars, pushVars, storeVars>>

\* coordinator.py 89-94.
Authenticate ==
    /\ pc = "authenticate"
    /\ \E out \in {"ok"} \cup SessionErrors :
        LET c == [cycle EXCEPT !.authOut = out,
                               !.authIn = IF MentionsAuth(out)
                                          THEN @ \cup {"authenticate"} ELSE @]
        IN  IF out = "ok"
            THEN /\ api' = TRUE
                 /\ tokenValid' = TRUE
                 /\ tokens' = [tokens EXCEPT !.auth = @ + 1, !.api = tokens.auth + 1]
                 /\ pc' = "enumerate"
                 /\ cycle' = c
                 /\ UNCHANGED <<available, queue>>
            ELSE /\ Raise(c, "authenticate", out)
                 /\ UNCHANGED <<api, tokenValid, tokens>>
    /\ UNCHANGED <<units, websocket, lastRun, ncycles, cmdVars, pushVars, persistVars>>

\* coordinator.py 97-133.
GetAccountDevices ==
    /\ pc = "enumerate"
    /\ \E out \in EnumOutcomes :
        LET step == EnumerateStep(out)
            c == [cycle EXCEPT !.enumOut = IF out.shape = "raises" THEN out.err ELSE "ok",
                               !.shape = out.shape,
                               !.authIn = IF out.shape = "raises" /\ MentionsAuth(out.err)
                                          THEN @ \cup {"get_account_devices"} ELSE @]
        IN  IF step.raised
            THEN Raise(c, IF out.shape = "raises" THEN "get_account_devices"
                          ELSE "devices_response", step.err)
            ELSE /\ queue' = step.devices
                 /\ pc' = IF step.devices = <<>> THEN "connect" ELSE "initial_fetch"
                 /\ cycle' = [c EXCEPT !.devices = step.devices]
                 /\ UNCHANGED available
    /\ UNCHANGED <<api, units, websocket, tokenValid, lastRun, ncycles, cmdVars, pushVars, storeVars>>

\* A discovery loop that registers a unit only when its initial fetch succeeds.
InitialFetchSkipsFailed(us, device, run, status) ==
    IF run.outcome = "returned"
    THEN DictSet(us, device.id, update_from_api(NewUnit, status))
    ELSE us

\* coordinator.py 143-160: the unit is created, the status is merged when the
\* fetch with its retries returns, and the unit is registered either way.
InitialFetchStep(us, device, run, status) ==
    DictSet(us, device.id, IF run.outcome = "returned"
                           THEN update_from_api(NewUnit, status)
                           ELSE NewUnit)

\* coordinator.py 135-160: one device of the discovery loop.
InitialFetch ==
    /\ pc = "initial_fetch"
    /\ queue # <<>>
    /\ LET device == Head(queue)
           rest == Tail(queue)
       IN  /\ queue' = rest
           /\ pc' = IF rest = <<>> THEN "connect" ELSE "initial_fetch"
           /\ IF device.id # "" /\ device.name # ""
              THEN \E script \in RemoteScripts(2), status \in Statuses :
                    LET run == RetryWithBackoff(script, 2)
                    IN  /\ units' = InitialFetchStep(units, device, run, status)
                        /\ lastRun' = [fn |-> "fetch_device_status", unit |-> device.id,
                                       run |-> run]
                        /\ cycle' = [cycle EXCEPT
                                !.authIn = IF AuthRaised(script, run)
                                           THEN @ \cup {"fetch_device_status"} ELSE @,
                                !.authRetried = @ \/ AuthRetried(script, run),
                                !.initial = DictSet(@, device.id,
                                                    [run |-> run, status |-> status])]
                        /\ objects' = IF device.id \in DOMAIN units'
                                      THEN NewObject(objects, device.id) ELSE objects
              ELSE UNCHANGED <<units, lastRun, cycle, objects, setup, flow, services>>
    /\ UNCHANGED <<api, available, websocket, tokenValid, ncycles, cmdVars, pushVars,
                   tokens, store, unload, registry, setup, flow, services>>

\* coordinator.py 163-219: the push channel is opened, with retry; whatever
\* happens, the coordinator is available afterwards.
ConnectWebsocket ==
    /\ pc = "connect"
    /\ \E script \in RemoteScripts(2) :
        LET run == RetryWithBackoff(script, 2)
        IN  /\ websocket' = IF run.outcome = "returned" THEN "connected" ELSE "created"
            /\ lastRun' = [fn |-> "connect", unit |-> "", run |-> run]
            /\ cycle' = [cycle EXCEPT
                            !.pushFailed = IF run.outcome = "raised" THEN run.err ELSE @,
                            !.pushAttempts = run.calls,
                            !.initial = EmptyDict]
    /\ tokens' = [tokens EXCEPT !.ws = tokens.auth]
    /\ available' = TRUE
    /\ pc' = "token"
    /\ UNCHANGED <<api, units, tokenValid, queue, ncycles, cmdVars, pushVars, persistVars>>

\* coordinator.py 222.
TokenCheck ==
    /\ pc = "token"
    /\ IF tokenValid
       THEN EnterPoll([cycle EXCEPT !.trace = Append(@, "is_token_valid")])
       ELSE /\ pc' = "refresh"
            /\ cycle' = [cycle EXCEPT !.trace = Append(@, "is_token_valid"),
                                      !.foundExpired = tokens.auth]
            /\ UNCHANGED queue
    /\ UNCHANGED <<api, units, available, websocket, tokenValid, lastRun, ncycles,
                   cmdVars, pushVars, storeVars>>

\* coordinator.py 223-229.
RefreshToken ==
    /\ pc = "refresh"
    /\ \E out \in {"ok"} \cup SessionErrors :
        LET c == [cycle EXCEPT !.authIn = IF MentionsAuth(out)
                                          THEN @ \cup {"refresh_access_token"} ELSE @,
                               !.trace = IF out = "ok"
                                         THEN @ \o <<"refresh_access_token", "update_token">>
                                         ELSE Append(@, "refresh_access_token")]
        IN  IF out = "ok"
            THEN /\ tokenValid' = TRUE
                 /\ tokens' = RefreshedTokens(tokens)
                 /\ UNCHANGED available
                 /\ IF websocket # "none"
                    THEN /\ pc' = "reconnect"
                         /\ cycle' = c
                         /\ UNCHANGED queue
                    ELSE EnterPoll(c)
            ELSE /\ Raise(c, "refresh_access_token", out)
                 /\ UNCHANGED <<tokenValid, tokens>>
    /\ UNCHANGED <<api, units, websocket, lastRun, ncycles, cmdVars, pushVars, persistVars>>

\* coordinator.py 229-280: the old channel is disconnected, a channel object is
\* created with the new token and opened by one call of connect outside any
\* try block of its own.
ReconnectWebsocket ==
    /\ pc = "reconnect"
    /\ \E out \in {"ok", "unauthorized_401", "server_busy"} :
        LET c == [cycle EXCEPT !.pushFailed = IF out # "ok" THEN out ELSE @,
                               !.pushAttempts = 1,
                               !.trace = @ \o <<"disconnect", "connect">>]
        IN  /\ tokens' = [tokens EXCEPT !.ws = tokens.auth]
            /\ websocket' = IF out = "ok" THEN "connected" ELSE "created"
            /\ lastRun' = [fn |-> "connect", unit |-> "",
                           run |-> IF out = "ok"
                                   THEN RetryRun("returned", out, "", 1, 0)
                                   ELSE RetryRun("raised", "", out, 1, 0)]
            /\ IF out = "ok"
               THEN /\ EnterPoll(c)
                    /\ UNCHANGED available
               ELSE Raise(c, "connect", out)
    /\ UNCHANGED <<api, units, tokenValid, ncycles, cmdVars, pushVars, persistVars>>

\* A poll whose failure would end the cycle.
PollStepPropagates(us, unit_id, run, status) ==
    [units |-> IF run.outcome = "returned"
               THEN [us EXCEPT ![unit_id] = update_from_api(us[unit_id], status)]
               ELSE us,
     raised |-> run.outcome = "raised", err |-> run.err]

\* coordinator.py 288-300: the status is merged, or the error is logged and
\* the loop goes on.
PollStep(us, unit_id, run, status) ==
    [units |-> IF run.outcome = "returned"
               THEN [us EXCEPT ![unit_id] = update_from_api(us[unit_id], status)]
               ELSE us,
     raised |-> FALSE, err |-> ""]

\* coordinator.py 283-300: one unit of the poll loop.
PollUnit ==
    /\ pc = "poll"
    /\ queue # <<>>
    /\ \E script \in RemoteScripts(3), status \in Statuses :
        LET unit_id == Head(queue)
            run == RetryWithBackoff(script, 3)
            step == PollStep(units, unit_id, run, status)
            c == [cycle EXCEPT
                    !.polled = @ \cup {unit_id},
                    !.merged = IF script[run.calls] = "ok"
                               THEN DictSet(@, unit_id, status) ELSE @,
                    !.pollFailed = IF script[run.calls] # "ok"
                                   THEN @ \cup {unit_id} ELSE @,
                    !.authIn = IF AuthRaised(script, run)
                               THEN @ \cup {"fetch_device_status"} ELSE @,
                    !.authRetried = @ \/ AuthRetried(script, run),
                    !.trace = Append(@, "poll"),
                    !.pollTokens = @ \cup {tokens.api}]
        IN  /\ units' = step.units
            /\ lastRun' = [fn |-> "fetch_device_status", unit |-> unit_id, run |-> run]
            /\ IF step.raised
               THEN Raise(c, "fetch_device_status", step.err)
               ELSE /\ queue' = Tail(queue)
                    /\ cycle' = c
                    /\ UNCHANGED <<available, pc>>
    /\ UNCHANGED <<api, websocket, tokenValid, ncycles, cmdVars, pushVars, storeVars>>

\* coordinator.py 303.
ReturnData ==
    /\ pc = "poll"
    /\ queue = <<>>
    /\ cycle' = [cycle EXCEPT !.result = "returned"]
    /\ pc' = "idle"
    /\ UNCHANGED <<api, units, available, websocket, tokenValid, queue, lastRun, ncycles,
                   cmdVars, pushVars, storeVars>>

\* A merge that is skipped when a push message arrived or a call was made
\* after the fetch was issued.
PollMergeIfCurrent(us, fetch, received, calls) ==
    IF received > fetch.received \/ calls > fetch.calls
    THEN us
    ELSE PollStep(us, fetch.unit, fetch.run, fetch.status).units

\* coordinator.py 297-298: unit.update_from_api(status) runs as soon as the
\* awaited fetch returns; nothing received or commanded since the fetch was
\* issued is looked at.
PollMerge(us, fetch, received, calls) ==
    PollStep(us, fetch.unit, fetch.run, fetch.status).units

\* coordinator.py 291-297: the poll loop hands fetch_device_status to an
\* executor thread and awaits it; the event loop and the other threads run on.
PollFetchIssued ==
    /\ pc = "poll"
    /\ queue # <<>>
    /\ cycle.inflight.stage # "issued"
    /\ \E script \in RemoteScripts(3), status \in Statuses :
        cycle' = [cycle EXCEPT
                    !.inflight = [stage |-> "issued", unit |-> Head(queue),
                                  run |-> RetryWithBackoff(script, 3), status |-> status,
                                  received |-> push.received, calls |-> ncalls],
                    !.pollTokens = @ \cup {tokens.api}]
    /\ UNCHANGED <<api, units, available, websocket, tokenValid, pc, queue, lastRun,
                   ncycles, cmdVars, pushVars, storeVars>>

\* coordinator.py 297-300: the awaited fetch returns or raises, and the loop
\* merges the status or logs the error and goes on to the next unit.
PollFetchMerged ==
    /\ pc = "poll"
    /\ cycle.inflight.stage = "issued"
    /\ LET fetch == cycle.inflight
       IN  /\ units' = PollMerge(units, fetch, push.received, ncalls)
           /\ lastRun' = [fn |-> "fetch_device_status", unit |-> fetch.unit,
                          run |-> fetch.run]
           /\ cycle' = [cycle EXCEPT
                    !.inflight.stage = "merged",
                    !.polled = @ \cup {fetch.unit},
                    !.merged = IF fetch.run.outcome = "returned"
                               THEN DictSet(@, fetch.unit, fetch.status) ELSE @,
                    !.pollFailed = IF fetch.run.outcome # "returned"
                                   THEN @ \cup {fetch.unit} ELSE @,
                    !.trace = Append(@, "poll")]
    /\ queue' = Tail(queue)
    /\ UNCHANGED <<api, available, websocket, tokenValid, pc, ncycles, cmdVars, pushVars,
                   storeVars>>

\* SystemairModeTimeEntity.available (number.py 120-123).
ModeTimeEntityAvailable(unit_id) == available /\ unit_id \in DOMAIN units

\* Time passes between two cycles and the token expires.
TokenExpires ==
    /\ pc = "idle"
    /\ api
    /\ tokenValid
    /\ ncycles < MaxCycles
    /\ tokenValid' = FALSE
    /\ UNCHANGED <<api, units, available, websocket, pc, queue, cycle, lastRun, ncycles,
                   cmdVars, pushVars, storeVars>>

(***************************************************************************)
(* Execution contexts.  The event loop ("loop") runs the refresh cycle and *)
(* the entity handlers; the push channel's thread ("push") runs            *)
(* handle_ws_message; executor threads ("executor") run the coordinator's  *)
(* commands.  A write to a unit object begins, and ends in a later step.   *)
(***************************************************************************)
Write(ctx, unit_id, fields) == [ctx |-> ctx, unit |-> unit_id, fields |-> fields]

\* The unit after a write of some of its fields.
WithFields(unit, fields) ==
    [f \in DOMAIN unit |-> IF f \in DOMAIN fields THEN fields[f] ELSE unit[f]]

WritesOf(ctx) == {w \in writing : w.ctx = ctx}

\* The messages the push channel delivers: the structured event with the id in
\* properties.id, the flat message with the id in identifier, anything else.
Messages ==
    [shape : {"event", "flat", "other"}, id : UnitIds \cup UnknownIds, status : Statuses]

\* A message of one of the two shapes whose id is the id of a registered unit.
Recognised(message) ==
    /\ message.shape \in {"event", "flat"}
    /\ message.id \in DOMAIN units

\* A handler that takes the id of any message of the two shapes.
MessageTargetAnyId(message) ==
    IF message.shape \in {"event", "flat"} THEN message.id ELSE ""

\* coordinator.py 170-193: the unit a message updates, "" when it is dropped.
MessageTarget(message) ==
    IF message.shape = "event"
    THEN IF message.id \in DOMAIN units THEN message.id ELSE ""
    ELSE IF message.shape = "flat" /\ message.id \in DOMAIN units
    THEN message.id
    ELSE ""

\* unit.update_from_websocket(message) at coordinator.py 177 and 192.
update_from_websocket(unit, message) ==
    [unit EXCEPT !.user_mode = message.status.user_mode,
                 !.airflow = message.status.airflow,
                 !.setpoint = message.status.setpoint]

\* handle_ws_message (coordinator.py 165-203), called by the push channel's
\* thread: a recognised message for a registered unit is merged there and then.
\* A message for no registered unit, or of no recognised shape, is logged and
\* dropped.  `push` keeps the message and counts the messages received.
HandleWsMessage ==
    /\ websocket = "connected"
    /\ WritesOf("push") = {}
    /\ push.received < MaxPushMessages
    /\ \E message \in Messages :
        /\ push' = [push EXCEPT !.message = message,
                                !.received = @ + 1,
                                !.known = IF Recognised(message) THEN @ + 1 ELSE @,
                                !.stage = IF MessageTarget(message) # ""
                                          THEN "merging" ELSE "dropped"]
        /\ writing' = IF MessageTarget(message) # ""
                      THEN writing \cup {Write("push", MessageTarget(message),
                                               message.status)}
                      ELSE writing
    /\ UNCHANGED <<api, units, cmdVars, coordVars, refreshScheduled, storeVars>>

\* update_from_websocket returns, and the callback schedules async_refresh on
\* the event loop (coordinator.py 182-186).
HandleWsMessageDone ==
    /\ \E w \in WritesOf("push") :
        /\ units' = [units EXCEPT ![w.unit] =
                        update_from_websocket(@, [shape |-> "event", id |-> w.unit,
                                                  status |-> w.fields])]
        /\ writing' = writing \ {w}
    /\ refreshScheduled' = refreshScheduled + 1
    /\ push' = [push EXCEPT !.stage = "scheduled"]
    /\ UNCHANGED <<api, cmdVars, coordVars, storeVars>>

\* A scheduled async_refresh runs on the event loop: a refresh cycle begins,
\* and its end notifies the dependents.
ScheduledRefreshRuns ==
    /\ refreshScheduled > 0
    /\ pc = "idle"
    /\ refreshScheduled' = refreshScheduled - 1
    /\ push' = [push EXCEPT !.started = @ + 1,
                            !.stage = IF @ = "scheduled" THEN "refreshing" ELSE @]
    /\ ncycles' = ncycles + 1
    /\ cycle' = [NoCycle EXCEPT !.result = "running"]
    /\ lastRun' = NoLastRun
    /\ pc' = CycleEntry(api)
    /\ UNCHANGED <<api, units, available, websocket, tokenValid, queue, cmdVars, writing,
                   storeVars>>

\* coordinator.set_temperature running in an executor thread for
\* SystemairClimate.async_set_temperature (climate.py 161-165): after a truthy
\* answer of the remote call the thread writes the setpoint (coordinator.py 543).
ExecutorSetTemperature ==
    /\ api
    /\ Cardinality(WritesOf("executor")) < MaxExecutorJobs
    /\ \E unit_id \in DOMAIN units, temperature \in TemperatureInputs :
        writing' = writing \cup {Write("executor", unit_id, [setpoint |-> temperature])}
    /\ UNCHANGED <<api, units, cmdVars, coordVars, refreshScheduled, push, storeVars>>

\* The executor's write ends and set_temperature returns True; the entity, on
\* the event loop, begins its own write of the setpoint (climate.py 168-171).
ExecutorSetTemperatureDone ==
    /\ WritesOf("loop") = {}
    /\ \E w \in WritesOf("executor") :
        /\ units' = [units EXCEPT ![w.unit] = WithFields(@, w.fields)]
        /\ writing' = (writing \ {w}) \cup {Write("loop", w.unit, w.fields)}
    /\ UNCHANGED <<api, cmdVars, coordVars, refreshScheduled, push, storeVars>>

\* The poll loop, on the event loop, begins unit.update_from_api(status)
\* (coordinator.py 298).
PollMergeBegins ==
    /\ api
    /\ WritesOf("loop") = {}
    /\ \E unit_id \in DOMAIN units, status \in Statuses :
        writing' = writing \cup {Write("loop", unit_id, status)}
    /\ UNCHANGED <<api, units, cmdVars, coordVars, refreshScheduled, push, storeVars>>

\* A write of the event loop ends.
LoopWriteDone ==
    /\ \E w \in WritesOf("loop") :
        /\ units' = [units EXCEPT ![w.unit] = WithFields(@, w.fields)]
        /\ writing' = writing \ {w}
    /\ UNCHANGED <<api, cmdVars, coordVars, refreshScheduled, push, storeVars>>

(***************************************************************************)
(* Stored durations (coordinator.py 549-606) and teardown (__init__.py     *)
(* 49-78).                                                                 *)
(***************************************************************************)
\* A save of the durations of the second unit only.
SnapshotOfOneUnit(us) ==
    [u \in DOMAIN us \cap {"u2"} |-> us[u].user_mode_times]

\* A save that writes the registered units into the mapping the store holds
\* and keeps the entries of the other ids.
SnapshotMergedIntoStore(us) ==
    [u \in DOMAIN us \cup DOMAIN store.disk |->
        IF u \in DOMAIN us THEN us[u].user_mode_times ELSE store.disk[u]]

\* coordinator.py 566-569: data_to_save[unit_id] = dict(unit.user_mode_times)
\* for every registered unit.
SnapshotOf(us) == [u \in DOMAIN us |-> us[u].user_mode_times]

\* coordinator.py 559-560: for mode, time_value in mode_times.items():
\* user_mode_times[mode] = time_value.
MergeTimes(times, mode_times) ==
    [k \in DOMAIN times \cup DOMAIN mode_times |->
        IF k \in DOMAIN mode_times THEN mode_times[k] ELSE times[k]]

\* A load that replaces the unit's mapping by the stored one.
LoadReplacesTimes(us, stored_data) ==
    [u \in DOMAIN us |->
        IF u \in DOMAIN stored_data
        THEN [us[u] EXCEPT !.user_mode_times = stored_data[u]]
        ELSE us[u]]

\* A load that adds the stored minutes to the unit's.
LoadAccumulates(us, stored_data) ==
    [u \in DOMAIN us |->
        IF u \in DOMAIN stored_data
        THEN [us[u] EXCEPT !.user_mode_times =
                [k \in DOMAIN @ \cup DOMAIN stored_data[u] |->
                    IF k \in DOMAIN stored_data[u]
                    THEN IF k \in DOMAIN @ /\ @[k] # None
                         THEN @[k] + stored_data[u][k]
                         ELSE stored_data[u][k]
                    ELSE @[k]]]
        ELSE us[u]]

\* async_load_stored_time_values (coordinator.py 549-561): nothing when the
\* store is absent or empty; else the stored durations of every stored id that
\* is registered are written into that unit's user_mode_times.
LoadStoredTimeValues(us, stored_data) ==
    IF stored_data = EmptyDict
    THEN us
    ELSE [u \in DOMAIN us |->
            IF u \in DOMAIN stored_data
            THEN [us[u] EXCEPT !.user_mode_times = MergeTimes(@, stored_data[u])]
            ELSE us[u]]

\* set_user_mode_time that sends the duration to the device as well.
SetUserModeTimeSendsToDevice(us, unit_id, mode, time_value) ==
    IF unit_id \in DOMAIN us
    THEN Effect([us EXCEPT ![unit_id].user_mode_times = DictSet(@, mode, time_value)],
                1, TRUE, <<RemoteCall("set_user_mode_time", unit_id, None, time_value, "true")>>)
    ELSE Effect(us, 0, FALSE, <<>>)

\* set_user_mode_time (coordinator.py 576-606): the duration is written into
\* the unit's user_mode_times and a save is scheduled; an unknown unit gives False.
SetUserModeTimeEff(us, unit_id, mode, time_value) ==
    IF unit_id \in DOMAIN us
    THEN Effect([us EXCEPT ![unit_id].user_mode_times = DictSet(@, mode, time_value)],
                1, TRUE, <<>>)
    ELSE Effect(us, 0, FALSE, <<>>)

\* What the store can hold at setup: nothing; one duration of the first unit;
\* durations of both units; durations of the first unit and of an id that is
\* not registered; durations of an unregistered id only.
StoredMappings ==
    {EmptyDict,
     [u \in {"u1"} |-> [k \in {"refresh"} |-> 30]],
     [u \in {"u1", "u2"} |-> [k \in {"refresh", "away"} |-> IF u = "u1" THEN 30 ELSE 90]],
     [u \in {"u1", "ghost"} |-> [k \in {"holiday"} |-> 60]],
     [u \in {"ghost"} |-> [k \in {"away"} |-> 90]]}

DurationKeyInputs == {"refresh", "away"}

DurationInputs == {35}

CanStoreOp == ncalls < MaxStoreOps /\ probe = NoProbe

\* async_setup_entry calls async_load_stored_time_values (__init__.py 36);
\* `last` keeps the units as they were and the number of saves run so far.
AsyncLoadStoredTimeValues ==
    /\ CanStoreOp
    /\ ncalls' = ncalls + 1
    /\ units' = LoadStoredTimeValues(units, store.disk)
    /\ last' = [NoCall EXCEPT !.op = "load", !.pre = units, !.preSaves = saveTasks,
                              !.arg = store.saved, !.result = TRUE]
    /\ UNCHANGED <<probe, api, entryData, saveTasks, scope, coordVars, pushVars, storeVars>>

\* A call of set_user_mode_time with a mode argument drawn from `modes`;
\* `last` keeps the argument in `key`.
SetUserModeTimeWith(modes) ==
    /\ CanStoreOp
    /\ \E unit_id \in IdInputs, mode \in modes, time_value \in DurationInputs :
        LET eff == SetUserModeTimeEff(units, unit_id, mode, time_value)
        IN  /\ ncalls' = ncalls + 1
            /\ units' = eff.units
            /\ saveTasks' = saveTasks + eff.saves
            /\ last' = [NoCall EXCEPT !.op = "set_user_mode_time", !.unit = unit_id,
                                      !.time = time_value, !.result = eff.result,
                                      !.calls = eff.calls, !.key = mode,
                                      !.pre = units, !.preSaves = saveTasks]
    /\ UNCHANGED <<probe, api, entryData, scope, coordVars, pushVars, storeVars>>

\* The set_user_mode_time service (services.py 242-245), whose schema admits
\* the five timed mode names (services.py 82-88).
SetUserModeTime == SetUserModeTimeWith(DurationKeyInputs)

\* The mode arguments of a direct call of set_user_mode_time: a timed mode
\* name, and names the method does not tell apart from one.
ModeArguments == {"refresh", "manual", "auto"}

\* coordinator.set_user_mode_time called with any mode argument.
SetUserModeTimeAnyMode == SetUserModeTimeWith(ModeArguments)

\* What the store can hold: the mappings an earlier run saved, and a file
\* with a key that is not a timed mode name.
AnyStoredMappings ==
    StoredMappings \cup {[u \in {"u1"} |-> [k \in {"manual"} |-> 60]]}

\* A scheduled async_save_stored_time_values runs (coordinator.py 563-574).
AsyncSaveStoredTimeValues ==
    /\ saveTasks > 0
    /\ saveTasks' = saveTasks - 1
    /\ store' = [disk |-> SnapshotOf(units), saved |-> store.saved + 1]
    /\ UNCHANGED <<probe, api, units, entryData, last, scope, ncalls, coordVars, pushVars,
                   tokens, unload, registry, objects, setup, flow, services>>

\* A teardown that disconnects the push channel before it saves.
UnloadStepsDisconnectFirst == <<"disconnect", "save", "platforms">>

\* __init__.py 53-66: the final save, the disconnect, the unload of the platforms.
UnloadSteps == <<"save", "disconnect", "platforms">>

UnloadNext ==
    IF registry /\ setup.result = "true" /\ unload.at < Len(UnloadSteps)
    THEN UnloadSteps[unload.at + 1]
    ELSE "none"

\* The record of a step of async_unload_entry.
UnloadDid(what) ==
    [unload EXCEPT !.at = @ + 1, !.order = Append(@, what),
                   !.pre = IF unload.at = 0 THEN units ELSE @]

\* __init__.py 54-58: async_save_stored_time_values is awaited; it writes its
\* snapshot, or raises and the error is logged.
UnloadSave ==
    /\ UnloadNext = "save"
    /\ \E out \in {"ok", "raises"} :
        /\ store' = IF out = "ok"
                    THEN [disk |-> SnapshotOf(units), saved |-> store.saved + 1]
                    ELSE store
        /\ unload' = [UnloadDid(IF out = "ok" THEN "save_ok" ELSE "save_failed") EXCEPT
                        !.written = IF out = "ok" THEN SnapshotOf(units) ELSE @]
    /\ UNCHANGED <<api, units, cmdVars, coordVars, pushVars, tokens, registry, objects, setup, flow, services>>

\* __init__.py 61-63: the push channel, when there is one, is disconnected.
UnloadDisconnect ==
    /\ UnloadNext = "disconnect"
    /\ websocket' = IF websocket # "none" THEN "disconnected" ELSE websocket
    /\ unload' = UnloadDid(IF websocket # "none" THEN "disconnect" ELSE "no_channel")
    /\ UNCHANGED <<api, units, cmdVars, available, tokenValid, pc, queue, cycle, lastRun,
                   ncycles, pushVars, tokens, store, registry, objects, setup, flow, services>>

\* __init__.py 65-66: when the platforms unload, the coordinator is popped
\* from hass.data[DOMAIN].
UnloadPlatforms ==
    /\ UnloadNext = "platforms"
    /\ \E unload_ok \in BOOLEAN :
        /\ registry' = IF unload_ok THEN FALSE ELSE registry
        /\ unload' = [UnloadDid(IF unload_ok THEN "pop" ELSE "kept") EXCEPT
                        !.result = IF unload_ok THEN "true" ELSE "false"]
    /\ UNCHANGED <<api, units, cmdVars, coordVars, pushVars, tokens, store, objects, setup, flow, services>>

\* The update timer of a loaded entry fires: a refresh cycle begins while
\* async_unload_entry has not returned.  The cycle's awaits (coordinator.py
\* 225, 231, 279, 297) and those of async_unload_entry (__init__.py 55, 63, 65)
\* give way to each other on the event loop.
StartCycleWhileLoaded ==
    /\ unload.result = "none"
    /\ StartCycle

(***************************************************************************)
(* The configured defaults: the durations step of the config and options   *)
(* flows, and the number entities.                                         *)
(***************************************************************************)
\* number.py 178-184: mode key -> config key, "" if none.
ModeToConfig(mode_key) ==
    IF mode_key \in TimedKeys THEN ModeToDurationConfig(MODE_NAME_TO_VALUE(mode_key)) ELSE ""

\* A validation that reads the away limit for crowded as well.
NumberValidCrowdedAsAway(mode_key, new_value) ==
    IF mode_key = "holiday" /\ ~(1 <= new_value /\ new_value <= 30) THEN FALSE
    ELSE IF mode_key \in {"away", "crowded"} /\ ~(1 <= new_value /\ new_value <= 24) THEN FALSE
    ELSE IF mode_key \in {"fireplace", "refresh"} /\ ~(1 <= new_value /\ new_value <= 120)
    THEN FALSE
    ELSE TRUE

\* number.py 222-230: `valid`, with the conditional expression of the
\* second branch read as Python reads it.
NumberValid(mode_key, new_value) ==
    IF mode_key = "holiday" /\ ~(1 <= new_value /\ new_value <= 30) THEN FALSE
    ELSE IF mode_key \in {"away", "crowded"}
            /\ ~(IF mode_key = "away"
                 THEN 1 <= new_value /\ new_value <= 24
                 ELSE 1 <= new_value /\ new_value <= 12)
    THEN FALSE
    ELSE IF mode_key \in {"fireplace", "refresh"} /\ ~(1 <= new_value /\ new_value <= 120)
    THEN FALSE
    ELSE TRUE

\* SystemairModeTimeEntity.async_set_native_value (number.py 190-250): the
\* entry's data afterwards.
NumberSetNativeValueData(data, mode_key, new_value) ==
    LET config_key == ModeToConfig(mode_key)
    IN  IF config_key # "" /\ NumberValid(mode_key, new_value)
        THEN DictSet(data, config_key, new_value)
        ELSE data

\* user_input.get(key, 0).
GetOrZero(d, key) == IF key \in DOMAIN d THEN d[key] ELSE 0

\* async_step_durations (config_flow.py 130-141 and 232-243): the keys that
\* get an error.
FlowErrors(user_input) ==
    {k \in {"duration_holiday"} :
        GetOrZero(user_input, k) < 1 \/ GetOrZero(user_input, k) > 30}
    \cup {k \in {"duration_away"} :
        GetOrZero(user_input, k) < 1 \/ GetOrZero(user_input, k) > 24}
    \cup {k \in {"duration_fireplace"} :
        GetOrZero(user_input, k) < 1 \/ GetOrZero(user_input, k) > 120}
    \cup {k \in {"duration_refresh"} :
        GetOrZero(user_input, k) < 1 \/ GetOrZero(user_input, k) > 120}
    \cup {k \in {"duration_crowded"} :
        GetOrZero(user_input, k) < 1 \/ GetOrZero(user_input, k) > 12}

\* The form as it is shown: the entry's values, the defaults of const.py
\* 22-26 where the entry has none (config_flow.py 51-59, 250-272).
FormDefaults ==
    [k \in DOMAIN ConfigDefaults |-> IF k \in DOMAIN entryData THEN entryData[k]
                                     ELSE ConfigDefaults[k]]

\* The values a user types.
DurationValueInputs == {0 - 1, 0, 1, 12, 13, 24, 25, 30, 31, 120, 121}

CanEditDefaults == ncalls < MaxConfigEdits /\ probe = NoProbe

\* A number entity of a registered unit is set (number.py 190-250).
NumberSetNativeValueOf(mode_keys) ==
    /\ \E unit_id \in EntityIds, mode_key \in mode_keys, new_value \in DurationValueInputs :
        /\ ncalls' = ncalls + 1
        /\ entryData' = NumberSetNativeValueData(entryData, mode_key, new_value)
        /\ last' = [NoCall EXCEPT !.op = "number_set_native_value", !.unit = unit_id,
                                  !.key = mode_key, !.arg = new_value,
                                  !.result = NumberValid(mode_key, new_value)]
    /\ UNCHANGED <<probe, api, units, saveTasks, scope, coordVars, pushVars, storeVars>>

NumberSetNativeValue == CanEditDefaults /\ NumberSetNativeValueOf(TimedKeys)

\* A behaviour that activates a timed mode before and after edits of its
\* configured default.
CanActivateOrEdit == ncalls < MaxActivations + MaxConfigEdits /\ probe = NoProbe

\* set_mode_with_time is called for the timed mode in scope without a duration
\* (coordinator.py 368-470).
ActivateWithoutDuration ==
    /\ CanActivateOrEdit
    /\ \E script \in TimeScripts :
        Apply("set_mode_with_time", scope.unit, scope.mode, None,
              SetModeWithTimeEff(units, scope.unit, scope.mode, None, script))

\* The number entity of the timed mode in scope is set.
NumberSetScopeDefault ==
    /\ CanActivateOrEdit
    /\ NumberSetNativeValueOf({ModeNameForKey(scope.mode)})

\* The durations step of the config flow or of the options flow is submitted
\* with one field changed (config_flow.py 124-146, 226-248).  Accepted, the
\* input becomes the flow's duration_data and the flow goes on to its next
\* step; rejected, the form is shown again with the errors.
FlowStepDurations ==
    /\ CanEditDefaults
    /\ \E mode_key \in TimedKeys, value \in DurationValueInputs :
        LET user_input == [FormDefaults EXCEPT ![ModeToConfig(mode_key)] = value]
            errors == FlowErrors(user_input)
        IN  /\ ncalls' = ncalls + 1
            /\ flow' = IF errors = {}
                        THEN [duration_data |-> user_input, errors |-> errors]
                        ELSE [flow EXCEPT !.errors = errors]
            /\ last' = [NoCall EXCEPT !.op = "flow_durations", !.key = mode_key,
                                      !.arg = value, !.result = (errors = {})]
    /\ UNCHANGED <<probe, api, units, entryData, saveTasks, scope, coordVars, pushVars,
                   tokens, store, unload, registry, objects, setup, services>>

\* __init__.py 34-46: the load of the stored durations, the forwarding of the
\* platforms, the services.
SetupSteps == <<"load", "platforms", "services">>

SetupNext ==
    IF setup.result = "none" /\ setup.at < Len(SetupSteps)
    THEN SetupSteps[setup.at + 1]
    ELSE "none"

\* A setup that lets the error of the load escape.
SetupLoadFailurePropagates(out) == out # "ok"

\* __init__.py 35-39: `except Exception` catches whatever the load raises.
SetupLoadFailureEscapes(out) == FALSE

\* How a load can end: it applies the store; storage.async_load raises
\* (missing or unreadable file) before anything is applied; or an entry of the
\* content is not a mapping and the loop raises after the entries before it
\* were applied.
LoadOutcomes == {"ok", "unreadable", "malformed"}

\* The stored entries a load applied before it ended (coordinator.py 551-560).
AppliedBy(out, stored_data, upto) ==
    IF out = "ok" THEN stored_data
    ELSE IF out = "unreadable" THEN EmptyDict
    ELSE [u \in DOMAIN stored_data \cap upto |-> stored_data[u]]

\* __init__.py 34-39: async_load_stored_time_values is awaited inside a try.
SetupLoad ==
    /\ SetupNext = "load"
    /\ \E out \in LoadOutcomes, upto \in {{}, {"u1"}} :
        /\ out # "malformed" => upto = {}
        /\ units' = LoadStoredTimeValues(units, AppliedBy(out, store.disk, upto))
        /\ setup' = IF SetupLoadFailureEscapes(out)
                     THEN [setup EXCEPT !.order = Append(@, "load_failed"),
                                        !.result = "raised"]
                     ELSE [setup EXCEPT !.at = @ + 1,
                                        !.order = Append(@, IF out = "ok" THEN "load_ok"
                                                            ELSE "load_failed")]
    /\ UNCHANGED <<api, cmdVars, coordVars, pushVars, tokens, store, unload, registry,
                   objects, flow, services>>

\* __init__.py 41: the entry is forwarded to the platforms.
SetupPlatforms ==
    /\ SetupNext = "platforms"
    /\ setup' = [setup EXCEPT !.at = @ + 1, !.order = Append(@, "platforms")]
    /\ UNCHANGED <<api, units, cmdVars, coordVars, pushVars, tokens, store, unload, registry,
                   objects, flow, services>>

\* __init__.py 43-46: the services are set up and True is returned.
SetupServices ==
    /\ SetupNext = "services"
    /\ setup' = [setup EXCEPT !.at = @ + 1, !.order = Append(@, "services"),
                              !.result = "true"]
    /\ UNCHANGED <<api, units, cmdVars, coordVars, pushVars, tokens, store, unload, registry,
                   objects, flow, services>>

(***************************************************************************)
(* Several entries of the integration: each has its coordinator in         *)
(* hass.data[DOMAIN], all share the four services of the domain.           *)
(***************************************************************************)
EntryIds == {"e1", "e2"}

\* coordinator.units of each entry's coordinator after its first refresh.
EntryUnits == [e \in EntryIds |-> IF e = "e1" THEN {"u1"} ELSE {"u2"}]

\* services.py 256-268.
ServiceNames ==
    {"set_user_mode", "set_manual_airflow", "set_room_temp_setpoint", "set_user_mode_time"}

\* _get_unit_id_from_entity (services.py 36-55) for an entity whose device has
\* the identifier unit_id, called with the coordinator the handler closed
\* over: the id when it is in coordinator.units, else None.  The answer is
\* the set of the ids found, {} for None.
GetUnitIdFromEntity(unit_id, entry) ==
    IF entry \in EntryIds /\ unit_id \in EntryUnits[entry] THEN {unit_id} ELSE {}

\* async_setup_entry of an entry (__init__.py 26-46): the coordinator is put in
\* hass.data[DOMAIN] and async_setup_services (services.py 92-98, 256-268)
\* registers the four services with handlers that hold this coordinator;
\* async_register replaces the handlers registered before.
EntrySetup ==
    /\ \E e \in EntryIds \ services.loaded :
        services' = [services EXCEPT !.loaded = @ \cup {e},
                                     !.registered = ServiceNames,
                                     !.handler = e]
    /\ UNCHANGED <<api, units, cmdVars, coordVars, pushVars, tokens, store, unload,
                   registry, objects, setup, flow>>

\* async_unload_entry of an entry (__init__.py 65-78): the coordinator is
\* popped when the platforms unload, and the four services are removed
\* whenever they are registered.
EntryUnload ==
    /\ \E e \in services.loaded \ services.failed, unload_ok \in BOOLEAN :
        services' = [services EXCEPT !.loaded = IF unload_ok THEN @ \ {e} ELSE @,
                                     !.failed = IF unload_ok THEN @ ELSE @ \cup {e},
                                     !.registered = {},
                                     !.handler = ""]
    /\ UNCHANGED <<api, units, cmdVars, coordVars, pushVars, tokens, store, unload,
                   registry, objects, setup, flow>>

\* A service of the domain is called for an entity of a unit: without a
\* registered service the call is refused; a handler that gets no unit id
\* from its coordinator logs an error and returns (services.py 105-108).
ServiceCall ==
    /\ \E service \in ServiceNames, unit_id \in UnitIds \cup UnknownIds :
        LET found == GetUnitIdFromEntity(unit_id, services.handler)
            result == IF service \notin services.registered THEN "not_found"
                      ELSE IF found = {} THEN "no_unit"
                      ELSE "handled"
        IN  services' = [services EXCEPT !.call =
                            [service |-> service, unit |-> unit_id,
                             loaded |-> services.loaded \ services.failed,
                             result |-> result,
                             by |-> IF result = "handled" THEN services.handler ELSE ""]]
    /\ UNCHANGED <<api, units, cmdVars, coordVars, pushVars, tokens, store, unload,
                   registry, objects, setup, flow>>

(***************************************************************************)
(* Specifications.                                                         *)
(***************************************************************************)
\* The coordinator after its first refresh: an API session and the units it
\* discovered, or no session and no units; `cycles` is the number of refresh
\* cycles the behaviour is taken to have used up.
InitCmdOf(cycles) ==
    /\ probe = NoProbe
    /\ api \in BOOLEAN
    /\ scope \in [unit : UnitIds, mode : timed_modes]
    /\ units \in IF api
                 THEN {us \in [UnitIds -> InitialUnits] :
                          \A u \in UnitIds \ {scope.unit} : us[u] = Unit(MODE_AUTO, 3, 200, [k \in TimedKeys |-> None])}
                 ELSE {EmptyDict}
    /\ entryData \in ConfigChoices
    /\ saveTasks = 0
    /\ last = NoCall
    /\ ncalls = 0
    /\ available = api
    /\ websocket = IF api THEN "connected" ELSE "none"
    /\ tokenValid = api
    /\ pc = "idle"
    /\ queue = <<>>
    /\ cycle = NoCycle
    /\ lastRun = NoLastRun
    /\ ncycles = cycles
    /\ writing = {}
    /\ refreshScheduled = 0
    /\ push = NoPush
    /\ tokens = IF api THEN LiveTokens ELSE NoTokens
    /\ store = NoStore
    /\ setup = SetupDone
    /\ flow = NoFlow
    /\ services = NoServices
    /\ unload = NoUnload
    /\ objects = ObjectsOf(units)
    /\ registry = TRUE

InitCmd == InitCmdOf(0)

\* The coordinator's four commands.
NextCmd ==
    \/ SetMode
    \/ SetModeWithTime
    \/ SetFanSpeed
    \/ SetTemperature

SpecCmd == InitCmd /\ [][NextCmd]_vars

\* The paths that activate a mode: entities, the service, and the command that
\* stores an explicit duration.
NextEntry ==
    \/ OperationModeSelect
    \/ ServiceSetUserMode
    \/ ClimatePreset
    \/ AirflowSelectRefresh
    \/ SetModeWithTime

SpecEntry == InitCmd /\ [][NextEntry]_vars

\* The paths that write an airflow level: the command, the airflow select and
\* the fan mode of the climate entity.
NextAirflow ==
    \/ SetFanSpeed
    \/ AirflowSelectManual
    \/ AirflowSelectRefresh
    \/ ClimateFanMode

SpecAirflow == InitCmd /\ [][NextAirflow]_vars

\* retry_with_backoff on scripted functions, and set_mode with its inline loop.
NextRetry ==
    \/ CallRetryWithBackoff
    \/ SetMode

InitRetry == InitCmd /\ api /\ entryData = ConfigDefaults /\ scope.unit = "u1"

SpecRetry == InitRetry /\ [][NextRetry]_vars

\* Direct calls of retry_with_backoff whose delays are recorded.
InitBackoff == InitRetry /\ scope.mode = MODE_REFRESH

NextBackoff ==
    \/ CallRetryTimed

SpecBackoff == InitBackoff /\ [][NextBackoff]_vars


\* A coordinator as __init__ leaves it (coordinator.py 61-83); `calls` is the
\* number of calls the behaviour is taken to have used up.
InitCycleOf(calls) ==
    /\ probe = NoProbe
    /\ api = FALSE
    /\ scope = [unit |-> "u1", mode |-> MODE_REFRESH]
    /\ units = EmptyDict
    /\ entryData = ConfigDefaults
    /\ saveTasks = 0
    /\ last = NoCall
    /\ ncalls = calls
    /\ available = FALSE
    /\ websocket = "none"
    /\ tokenValid = FALSE
    /\ pc = "idle"
    /\ queue = <<>>
    /\ cycle = NoCycle
    /\ lastRun = NoLastRun
    /\ ncycles = 0
    /\ writing = {}
    /\ refreshScheduled = 0
    /\ push = NoPush
    /\ tokens = NoTokens
    /\ store = NoStore
    /\ setup = SetupDone
    /\ flow = NoFlow
    /\ services = NoServices
    /\ unload = NoUnload
    /\ objects = NoObjects
    /\ registry = FALSE

InitCycle == InitCycleOf(0)

\* The refresh cycles of one coordinator.
NextCycle ==
    \/ StartCycle
    \/ Authenticate
    \/ GetAccountDevices
    \/ InitialFetch
    \/ ConnectWebsocket
    \/ TokenCheck
    \/ RefreshToken
    \/ ReconnectWebsocket
    \/ PollUnit
    \/ ReturnData
    \/ TokenExpires

SpecCycle == InitCycle /\ [][NextCycle]_vars

\* A coordinator after a first refresh that registered both units and opened
\* the push channel.
InitWriters ==
    /\ probe = NoProbe
    /\ api = TRUE
    /\ scope = [unit |-> "u1", mode |-> MODE_REFRESH]
    /\ units = [u \in UnitIds |-> Unit(MODE_AUTO, 2, 210, EmptyDict)]
    /\ entryData = ConfigDefaults
    /\ saveTasks = 0
    /\ last = NoCall
    /\ ncalls = 0
    /\ available = TRUE
    /\ websocket = "connected"
    /\ tokenValid = TRUE
    /\ pc = "idle"
    /\ queue = <<>>
    /\ cycle = NoCycle
    /\ lastRun = NoLastRun
    /\ ncycles = 0
    /\ writing = {}
    /\ refreshScheduled = 0
    /\ push = NoPush
    /\ tokens = LiveTokens
    /\ store = NoStore
    /\ setup = SetupDone
    /\ flow = NoFlow
    /\ services = NoServices
    /\ unload = NoUnload
    /\ objects = ObjectsOf(units)
    /\ registry = TRUE

\* The three contexts that write unit objects.
NextWriters ==
    \/ HandleWsMessage
    \/ HandleWsMessageDone
    \/ ExecutorSetTemperature
    \/ ExecutorSetTemperatureDone
    \/ PollMergeBegins
    \/ LoopWriteDone

SpecWriters == InitWriters /\ [][NextWriters]_vars

\* The push channel beside the refreshes it schedules: the coordinator after
\* its first refresh, messages arriving at any moment, and each scheduled
\* async_refresh running _async_update_data with a valid token.
NextPush ==
    \/ HandleWsMessage
    \/ HandleWsMessageDone
    \/ ScheduledRefreshRuns
    \/ TokenCheck
    \/ PollUnit
    \/ ReturnData

SpecPush == InitWriters /\ [][NextPush]_vars

\* The refresh cycles of a coordinator that has its session, its units and
\* its push channel, with the token expiring between cycles.
NextDegraded ==
    \/ StartCycle
    \/ TokenCheck
    \/ RefreshToken
    \/ ReconnectWebsocket
    \/ PollUnit
    \/ ReturnData
    \/ TokenExpires

SpecDegraded == InitWriters /\ [][NextDegraded]_vars

\* The refresh cycles of a loaded entry beside async_unload_entry.
NextTeardownRace ==
    \/ StartCycleWhileLoaded
    \/ TokenCheck
    \/ RefreshToken
    \/ ReconnectWebsocket
    \/ PollUnit
    \/ ReturnData
    \/ TokenExpires
    \/ UnloadSave
    \/ UnloadDisconnect
    \/ UnloadPlatforms

SpecTeardownRace == InitWriters /\ [][NextTeardownRace]_vars

\* Every operation that calls the remote: behaviours of the refresh cycles of
\* a new coordinator, and behaviours of the commands of a coordinator that has
\* its session.  The attempts of an operation do not depend on what the
\* other operations do, so a behaviour has the cycles or the commands.
InitAttempts ==
    \/ InitCycleOf(MaxCalls)
    \/ InitCmdOf(MaxCycles) /\ api

NextAttempts ==
    \/ StartCycle
    \/ Authenticate
    \/ GetAccountDevices
    \/ InitialFetch
    \/ ConnectWebsocket
    \/ TokenCheck
    \/ RefreshToken
    \/ ReconnectWebsocket
    \/ PollUnit
    \/ ReturnData
    \/ TokenExpires
    \/ SetMode
    \/ SetModeWithTime
    \/ SetFanSpeed
    \/ SetTemperature

SpecAttempts == InitAttempts /\ [][NextAttempts]_vars

\* Two entries of the integration set up, unloaded and served.
NextServices ==
    \/ EntrySetup
    \/ EntryUnload
    \/ ServiceCall

SpecServices == InitCycle /\ [][NextServices]_vars

\* The poll loop with its fetches on their way, beside the push channel.
NextStalePoll ==
    \/ StartCycle
    \/ TokenCheck
    \/ PollFetchIssued
    \/ PollFetchMerged
    \/ ReturnData
    \/ HandleWsMessage
    \/ HandleWsMessageDone

SpecStalePoll == InitWriters /\ [][NextStalePoll]_vars

\* The poll loop with its fetches on their way, beside a command that writes
\* its value optimistically.
NextOptimistic ==
    \/ StartCycle
    \/ TokenCheck
    \/ PollFetchIssued
    \/ PollFetchMerged
    \/ ReturnData
    \/ SetFanSpeed

SpecOptimistic == InitWriters /\ [][NextOptimistic]_vars

\* The coordinator after setup, with units whose durations are unset or set,
\* and whatever an earlier run left in the store.
InitStoreWith(disks) ==
    /\ probe = NoProbe
    /\ api = TRUE
    /\ scope = [unit |-> "u1", mode |-> MODE_REFRESH]
    /\ units \in {us \in [UnitIds -> InitialUnits \ {NewUnit}] :
                    us["u2"] = Unit(MODE_AUTO, 3, 200, [k \in TimedKeys |-> None])}
    /\ entryData = ConfigDefaults
    /\ saveTasks = 0
    /\ last = NoCall
    /\ ncalls = 0
    /\ available = TRUE
    /\ websocket \in {"connected", "none"}
    /\ tokenValid = TRUE
    /\ pc = "idle"
    /\ queue = <<>>
    /\ cycle = NoCycle
    /\ lastRun = NoLastRun
    /\ ncycles = 0
    /\ writing = {}
    /\ refreshScheduled = 0
    /\ push = NoPush
    /\ tokens = LiveTokens
    /\ store \in [disk : disks, saved : {0}]
    /\ unload = NoUnload
    /\ objects = ObjectsOf(units)
    /\ flow = NoFlow
    /\ services = NoServices
    /\ registry = TRUE

InitStore == InitStoreWith(StoredMappings) /\ setup = SetupDone

\* The entry as async_setup_entry finds it after the first refresh, with the
\* coordinator registered in hass.data.
InitLifecycle == InitStoreWith(StoredMappings) /\ setup = NoSetup

\* async_setup_entry from the load on, then async_unload_entry.
NextLifecycle ==
    \/ SetupLoad
    \/ SetupPlatforms
    \/ SetupServices
    \/ UnloadSave
    \/ UnloadDisconnect
    \/ UnloadPlatforms

SpecLifecycle == InitLifecycle /\ [][NextLifecycle]_vars

\* Stored durations: the load, the two mutations, the scheduled saves and teardown.
NextStore ==
    \/ AsyncLoadStoredTimeValues
    \/ SetUserModeTime
    \/ SetModeWithTime
    \/ AsyncSaveStoredTimeValues
    \/ UnloadSave
    \/ UnloadDisconnect
    \/ UnloadPlatforms

SpecStore == InitStore /\ [][NextStore]_vars

\* A coordinator with its units, and an entry with the defaults, changed
\* defaults, or no defaults.
InitDefaults ==
    /\ InitCmd
    /\ api
    /\ scope = [unit |-> "u1", mode |-> MODE_REFRESH]

\* The two ways a configured default is edited.
NextDefaults ==
    \/ NumberSetNativeValue
    \/ FlowStepDurations

SpecDefaults == InitDefaults /\ [][NextDefaults]_vars

\* A coordinator with its units, none with a stored duration, and an entry
\* with defaults.
InitDefaultChange ==
    /\ InitCmd
    /\ api
    /\ entryData # EmptyDict
    /\ \A u \in DOMAIN units : units[u] = Unit(MODE_AUTO, 3, 200, [k \in TimedKeys |-> None])

\* Activations of a timed mode without a duration, and edits of its default.
NextDefaultChange ==
    \/ ActivateWithoutDuration
    \/ NumberSetScopeDefault

SpecDefaultChange == InitDefaultChange /\ [][NextDefaultChange]_vars

\* The operations that touch the keys of user_mode_times, with any mode
\* argument and any stored mapping.
InitKeys == InitStoreWith(AnyStoredMappings) /\ setup = SetupDone

NextKeys ==
    \/ SetMode
    \/ SetModeWithTime
    \/ SetUserModeTimeAnyMode
    \/ AsyncLoadStoredTimeValues

SpecKeys == InitKeys /\ [][NextKeys]_vars

(***************************************************************************)
(* Properties of the retry loops and of the commands.                      *)
(***************************************************************************)
CoordinatorCommands == {"set_mode", "set_mode_with_time", "set_fan_speed", "set_temperature"}

\* The tags the remote calls of the last command produced, in call order.
LastOuts == [i \in 1..Len(last.calls) |-> last.calls[i].out]

Transient(tag) == IsError(tag) /\ ~MentionsAuth(tag)

\* C1: retry ceiling.  A call wrapped by retry_with_backoff with N = max_retries
\* is made at most N + 1 times: N + 1 times when every attempt raises an error
\* that does not mention authentication, k times when the k-th attempt is the
\* first to return, and never again after an error whose lower-cased message
\* contains "authentication" or "unauthorized" (that error, and the error of
\* the last attempt, reach the caller).  The loop of set_mode for AUTO and
\* MANUAL obeys the same law with N = 3.
RetryCeiling ==
    /\ probe # NoProbe =>
        LET N == probe.max_retries
            s == probe.script
            r == probe.run
        IN  /\ r.calls \in 1..(N + 1)
            /\ \A i \in 1..(r.calls - 1) : Transient(s[i])
            /\ r.outcome = "returned" <=> ~IsError(s[r.calls])
            /\ r.outcome = "returned" => r.ret = s[r.calls]
            /\ r.outcome = "raised" <=> IsError(s[r.calls])
            /\ r.outcome = "raised" => r.err = s[r.calls]
            /\ Transient(s[r.calls]) => r.calls = N + 1
    /\ (last.op = "set_mode" /\ last.arg \notin timed_modes /\ last.calls # <<>>) =>
        LET k == Len(LastOuts)
        IN  /\ k \in 1..4
            /\ \A i \in 1..(k - 1) : Transient(LastOuts[i])
            /\ Transient(LastOuts[k]) => k = 4
            /\ last.result <=> LastOuts[k] = "true"

\* Four attempts that all raise a retryable error: four calls, the last error raised.
RetryCeilingWitness ==
    /\ probe # NoProbe
    /\ probe.max_retries = 3
    /\ \A i \in 1..4 : probe.script[i] = "server_busy"
    /\ probe.run.calls = 4
    /\ probe.run.outcome = "raised"

\* The last command failed: the unit is not registered, there is no API
\* client, or no remote call returned a truthy result.
LastFailed ==
    \/ last.unit \notin DOMAIN last.pre
    \/ ~api
    \/ \A i \in 1..Len(last.calls) : last.calls[i].out # "true"

\* C2: failed commands change nothing.  When set_mode, set_mode_with_time,
\* set_fan_speed or set_temperature is called for an unregistered unit, without
\* an API client, or its remote call returns a falsy result or raises on every
\* attempt, the method returns False, no field of any unit differs from before
\* the call, and no save is scheduled.
FailedCommandsChangeNothing ==
    (last.op \in CoordinatorCommands /\ LastFailed) =>
        /\ ~last.result
        /\ units = last.pre
        /\ saveTasks = last.preSaves

\* set_fan_speed reached the remote call, which returned a falsy result.
FailedCommandsWitness ==
    /\ last.op = "set_fan_speed"
    /\ last.unit \in DOMAIN units
    /\ Len(last.calls) = 1
    /\ last.calls[1].out = "false"
    /\ units[last.unit].airflow # last.calls[1].b

\* The field a command writes, and the value it was asked to write.
CommandedField(u) ==
    CASE last.op \in {"set_mode", "set_mode_with_time"} -> u.user_mode
      [] last.op = "set_fan_speed" -> u.airflow
      [] last.op = "set_temperature" -> u.setpoint

CommandedValue ==
    CASE last.op \in {"set_mode", "set_mode_with_time"} -> last.arg
      [] last.op = "set_fan_speed" ->
            IF last.arg < 1 THEN 1 ELSE IF last.arg > 5 THEN 5 ELSE last.arg
      [] last.op = "set_temperature" -> last.arg

\* C3: optimistic update.  When the remote call of a command returned success,
\* the unit's field holds the commanded value when the command returns: the
\* mode for the mode commands, the level clamped to 1..5 for set_fan_speed,
\* the setpoint for set_temperature.
OptimisticUpdate ==
    (last.op \in CoordinatorCommands /\ \E i \in 1..Len(last.calls) : last.calls[i].out = "true") =>
        /\ last.result
        /\ CommandedField(units[last.unit]) = CommandedValue

\* set_fan_speed(6) succeeded on a unit whose level was not 5.
OptimisticUpdateWitness ==
    /\ last.op = "set_fan_speed"
    /\ last.arg = 6
    /\ last.result
    /\ last.pre[last.unit].airflow # 5
    /\ units[last.unit].airflow = 5

\* A configured default in minutes: days for holiday, hours for away and
\* crowded, minutes for fireplace and refresh.
DefaultMinutes(mode) ==
    CASE mode = MODE_HOLIDAY -> entryData["duration_holiday"] * 1440
      [] mode = MODE_AWAY -> entryData["duration_away"] * 60
      [] mode = MODE_CROWDED -> entryData["duration_crowded"] * 60
      [] mode = MODE_FIREPLACE -> entryData["duration_fireplace"]
      [] mode = MODE_REFRESH -> entryData["duration_refresh"]

\* The duration stored on the unit for the last command's mode before the call.
StoredBefore == DictGet(last.pre[last.unit].user_mode_times, ModeNameForKey(last.arg))

\* The duration a timed mode gets when the caller names none.
ExpectedDuration ==
    IF StoredBefore # None
    THEN StoredBefore
    ELSE IF entryData # EmptyDict
    THEN DefaultMinutes(last.arg)
    ELSE None

\* C4: duration resolution.  For a timed mode, set_mode and set_mode_with_time
\* send an explicitly given duration as it is; with none given they send the
\* duration stored on the unit for that mode, else the configured default
\* converted to minutes, else no duration.
DurationResolution ==
    (last.op \in {"set_mode", "set_mode_with_time"} /\ last.arg \in timed_modes
        /\ last.calls # <<>>) =>
        last.calls[1].b = IF last.time # None THEN last.time ELSE ExpectedDuration

\* A stored duration wins over a configured default that differs from it.
DurationResolutionWitness ==
    /\ last.op = "set_mode"
    /\ last.arg \in timed_modes
    /\ last.calls # <<>>
    /\ StoredBefore # None
    /\ entryData # EmptyDict
    /\ DefaultMinutes(last.arg) # StoredBefore
    /\ last.calls[1].b = StoredBefore

EntryPaths == {"operation_mode_select", "service_set_user_mode", "climate_preset",
               "airflow_select"}

\* C5: every entry path resolves the same duration.  Activating a timed mode
\* from the operation-mode select, the set_user_mode service, a climate preset
\* or the airflow select's Refresh option sends the stored duration when there
\* is one, else the configured default, and leaves a stored duration as it was.
EntryPathsResolveAlike ==
    (last.op \in EntryPaths /\ last.arg \in timed_modes /\ last.calls # <<>>) =>
        /\ last.calls[1].b = ExpectedDuration
        /\ StoredBefore # None =>
             DictGet(units[last.unit].user_mode_times, ModeNameForKey(last.arg)) = StoredBefore

\* The airflow select's Refresh option on a unit with a stored refresh
\* duration: the configured default is sent and replaces the stored value.
EntryPathsDivergence ==
    /\ last.op = "airflow_select"
    /\ last.calls # <<>>
    /\ entryData # EmptyDict
    /\ StoredBefore # None
    /\ last.result
    /\ last.calls[1].b = DefaultMinutes(MODE_REFRESH)
    /\ last.calls[1].b # StoredBefore
    /\ units[last.unit].user_mode_times["refresh"] = DefaultMinutes(MODE_REFRESH)

(***************************************************************************)
(* Properties of the refresh cycle.                                        *)
(***************************************************************************)
CycleFailed == cycle.result \in {"UpdateFailed", "raised"}

\* C6: per-unit poll isolation.  When the status fetch of a unit fails on all
\* of its attempts, the cycle goes on: it does not raise, available stays as
\* it was when the poll loop began, and when the cycle has ended every
\* registered unit has been polled, the failing unit is as it was, and every
\* unit whose fetch succeeded holds the status fetched for it.
PollIsolation ==
    cycle.pollFailed # {} =>
        /\ ~CycleFailed
        /\ available = cycle.prePollAvailable
        /\ \A u \in cycle.pollFailed : units[u] = cycle.prePoll[u]
        /\ pc = "idle" =>
            /\ cycle.result = "returned"
            /\ cycle.polled = DOMAIN units
            /\ \A u \in DOMAIN units \ cycle.pollFailed :
                /\ u \in DOMAIN cycle.merged
                /\ units[u].user_mode = cycle.merged[u].user_mode
                /\ units[u].airflow = cycle.merged[u].airflow
                /\ units[u].setpoint = cycle.merged[u].setpoint

\* The first unit's poll failed, the second unit's poll brought a new status.
PollIsolationWitness ==
    /\ pc = "idle"
    /\ cycle.result = "returned"
    /\ cycle.pollFailed = {"u1"}
    /\ "u2" \in DOMAIN cycle.merged
    /\ units["u2"] # cycle.prePoll["u2"]
    /\ available

\* C7: a refresh cycle in which authenticate or get_account_devices raises
\* ends at once in a failure (UpdateFailed or the exception itself), with
\* coordinator.available false and without a poll of any unit.
DiscoveryFailureIsFatal ==
    (cycle.authOut \notin {"", "ok"} \/ cycle.enumOut \notin {"", "ok"}) =>
        /\ pc = "idle"
        /\ CycleFailed
        /\ ~available
        /\ cycle.polled = {}

\* Authentication succeeded and the enumeration of devices raised.
DiscoveryFailureWitness ==
    /\ cycle.authOut = "ok"
    /\ cycle.enumOut = "auth_failed"
    /\ cycle.result = "UpdateFailed"
    /\ units = EmptyDict

\* C8: an authentication or authorization error raised by a remote call of a
\* refresh cycle (authenticate, token refresh, enumeration, a status fetch of
\* a unit) is never followed by another attempt of that call, and the cycle
\* it was raised in ends in a failure.
AuthFailureFailsCycle ==
    /\ ~cycle.authRetried
    /\ (pc = "idle" /\ cycle.authIn # {}) => CycleFailed

\* A poll raised an authorization error and the cycle returned data.
AuthFailureSwallowed ==
    /\ pc = "idle"
    /\ cycle.polled # {}
    /\ "fetch_device_status" \in cycle.authIn
    /\ cycle.result = "returned"
    /\ available

\* C9: push is never a dependency.  A failure to connect the push channel,
\* after discovery or after a token refresh, never ends the cycle; a busy
\* answer is tried again; and a cycle whose push channel failed to connect
\* polls every unit and returns data unless another call ends it.
PushNeverADependency ==
    /\ cycle.raisedBy # "connect"
    /\ cycle.pushFailed = "server_busy" => cycle.pushAttempts > 1
    /\ (pc = "idle" /\ cycle.pushFailed # "" /\ cycle.raisedBy = "") =>
        /\ cycle.result = "returned"
        /\ cycle.polled = DOMAIN units

\* The reconnect after a token refresh met a busy server once: the cycle
\* failed without a poll and the coordinator is unavailable.
PushReconnectFailsCycle ==
    /\ pc = "idle"
    /\ cycle.raisedBy = "connect"
    /\ cycle.pushFailed = "server_busy"
    /\ cycle.pushAttempts = 1
    /\ cycle.result = "UpdateFailed"
    /\ cycle.polled = {}
    /\ ~available

\* C32: availability is restored.  After every refresh cycle that returned
\* data coordinator.available is true, and so is the availability of the
\* duration entity of every registered unit.
AvailabilityRestored ==
    (pc = "idle" /\ cycle.result = "returned") =>
        /\ available
        /\ \A u \in DOMAIN units : ModeTimeEntityAvailable(u)

\* C32: a cycle failed at the token refresh; in the next cycle the refresh and
\* the reconnect succeeded, every unit was polled and the data returned, and
\* the coordinator and the duration entities are still unavailable.
StaysUnavailableAfterRecovery ==
    /\ ncycles = 2
    /\ pc = "idle"
    /\ cycle.result = "returned"
    /\ cycle.trace = <<"is_token_valid", "refresh_access_token", "update_token",
                       "disconnect", "connect", "poll", "poll">>
    /\ cycle.polled = DOMAIN units
    /\ cycle.pollFailed = {}
    /\ websocket = "connected"
    /\ ~available
    /\ \A u \in DOMAIN units : ~ModeTimeEntityAvailable(u)

\* Discovery has completed in this cycle or in an earlier one: the devices
\* were enumerated and the push channel object was created.
DiscoveryCompleted == websocket # "none"

\* C33: discovery is retried until it has succeeded.  A cycle goes on to the
\* token check and the polls only when the enumeration of devices has
\* succeeded, in this cycle or in an earlier one; a cycle of a coordinator
\* whose enumeration failed enumerates again.
DiscoveryIsRetried ==
    /\ pc \in {"token", "refresh", "reconnect", "poll"} => DiscoveryCompleted
    /\ (pc = "idle" /\ cycle.result = "returned") => DiscoveryCompleted

\* C33: the first cycle authenticated and its enumeration raised; the second
\* cycle called neither authenticate nor get_account_devices, polled nothing
\* and returned: no unit is registered and no push channel exists.
DiscoveryNeverRetried ==
    /\ ncycles = 2
    /\ pc = "idle"
    /\ api
    /\ cycle.result = "returned"
    /\ cycle.authOut = ""
    /\ cycle.enumOut = ""
    /\ cycle.polled = {}
    /\ units = EmptyDict
    /\ ~DiscoveryCompleted

(***************************************************************************)
(* Properties of the execution contexts.                                   *)
(***************************************************************************)
\* C10: single writer.  Every write to a unit object is made by the event
\* loop, the coordinator's own context, and no two contexts write the same
\* unit at the same time.
SingleWriter ==
    /\ \A w \in writing : w.ctx = "loop"
    /\ \A w1, w2 \in writing : w1.unit = w2.unit => w1.ctx = w2.ctx

\* The push thread and an executor thread are both writing unit u1.
TwoWritersOnOneUnit ==
    \E w1, w2 \in writing :
        /\ w1.unit = "u1"
        /\ w2.unit = "u1"
        /\ w1.ctx = "push"
        /\ w2.ctx = "executor"

(***************************************************************************)
(* Properties of the push channel.                                         *)
(***************************************************************************)
\* The unit shows every field of a status.
UnitShows(unit, status) ==
    /\ unit.user_mode = status.user_mode
    /\ unit.airflow = status.airflow
    /\ unit.setpoint = status.setpoint

\* The refresh the last message scheduled has ended: the dependents are notified.
PushNotified == push.stage = "refreshing" /\ pc = "idle"

\* C11: every push message of a recognised shape for a registered unit is
\* merged and schedules exactly one refresh, and at the notification that ends
\* that refresh the unit shows what the message pushed.
PushedValueIsObserved ==
    /\ refreshScheduled + push.started + Cardinality(WritesOf("push")) = push.known
    /\ PushNotified =>
          /\ cycle.result = "returned"
          /\ UnitShows(units[push.message.id], push.message.status)

\* C11: the refresh a message scheduled polled the unit, merged an answer that
\* differs from the pushed status, and ended: the dependents see the poll's answer.
PushedValueOverwritten ==
    /\ PushNotified
    /\ cycle.result = "returned"
    /\ push.message.id \in DOMAIN cycle.merged
    /\ push.message.id \in DOMAIN units
    /\ ~UnitShows(units[push.message.id], push.message.status)
    /\ UnitShows(units[push.message.id], cycle.merged[push.message.id])

\* One merge and one scheduled refresh per recognised message.
OneRefreshPerMessage ==
    refreshScheduled + push.started + Cardinality(WritesOf("push")) = push.known

\* A status fetch of the poll loop is merged in this step.
PollMergeStep == cycle.inflight.stage = "issued" /\ cycle'.inflight.stage = "merged"

\* The push thread's merge of a message ends in this step.
PushMergeStep == WritesOf("push") \ writing' # {}

\* C31: last write wins between poll and push.  The merge of a poll response
\* that returned leaves the unit showing the fetched status, whatever number
\* of push messages arrived since the fetch was issued; the merge of a push
\* message leaves the unit showing the pushed status; and no other step of
\* the poll loop or of the push channel changes a unit.  So each field has
\* the value of the update that was merged last.
LastWriteWins ==
    [][/\ (PollMergeStep /\ cycle.inflight.run.outcome = "returned") =>
             UnitShows(units'[cycle.inflight.unit], cycle.inflight.status)
       /\ PushMergeStep =>
             \A w \in WritesOf("push") \ writing' : UnitShows(units'[w.unit], w.fields)
       /\ (~PollMergeStep /\ ~PushMergeStep) => units' = units]_vars

\* C31: a fetch was issued, a push message for the same unit then arrived and
\* was merged, and the fetch's older status was merged after it: the unit
\* shows the poll's status and not the pushed one.
StalePollOverwritesPush ==
    /\ cycle.inflight.stage = "merged"
    /\ cycle.inflight.run.outcome = "returned"
    /\ push.received > cycle.inflight.received
    /\ push.stage = "scheduled"
    /\ push.message.id = cycle.inflight.unit
    /\ cycle.inflight.unit \in DOMAIN units
    /\ push.message.status # cycle.inflight.status
    /\ UnitShows(units[cycle.inflight.unit], cycle.inflight.status)
    /\ ~UnitShows(units[cycle.inflight.unit], push.message.status)

\* The level the last set_fan_speed wrote optimistically.
OptimisticValue == IF last.arg < 1 THEN 1 ELSE IF last.arg > 5 THEN 5 ELSE last.arg

\* The last call succeeded on the unit whose fetch is on its way, it was made
\* after that fetch was issued, and the unit still holds the value it wrote.
OptimisticInPlace ==
    /\ last.op = "set_fan_speed"
    /\ last.result
    /\ last.unit = cycle.inflight.unit
    /\ cycle.inflight.calls < ncalls
    /\ units[last.unit].airflow = OptimisticValue

\* C34: an optimistic value is not reverted by older data.  The merge of a
\* poll response whose fetch was issued before the command leaves the field
\* the command wrote as it is.
OptimisticValueKept ==
    [][(PollMergeStep /\ OptimisticInPlace) =>
          units'[last.unit].airflow = OptimisticValue]_vars

\* C34: a status fetch of unit u1 was issued, set_fan_speed then succeeded on
\* u1 and wrote its level, and the fetch's answer, older than the command,
\* was merged after it: the unit shows the level the device had before the
\* command.
OptimisticValueReverted ==
    /\ cycle.inflight.stage = "merged"
    /\ cycle.inflight.run.outcome = "returned"
    /\ cycle.inflight.calls < ncalls
    /\ last.op = "set_fan_speed"
    /\ last.result
    /\ last.unit = cycle.inflight.unit
    /\ last.unit \in DOMAIN units
    /\ units[last.unit].airflow = cycle.inflight.status.airflow
    /\ units[last.unit].airflow # OptimisticValue

\* C12: a message whose id is not a registered unit's, or of neither shape,
\* changes no unit, registers no unit, begins no write and schedules no refresh.
DroppedMessagesChangeNothing ==
    [][(push'.received = push.received + 1 /\ ~Recognised(push'.message))
          => /\ units' = units
             /\ writing' = writing
             /\ refreshScheduled' = refreshScheduled]_vars

\* C12: a message for an unknown id has been handled and dropped, and so has
\* a message of neither shape, with the units as they were.
DroppedMessagesWitness ==
    /\ push.stage = "dropped"
    /\ push.received = MaxPushMessages
    /\ push.known = 0
    /\ push.message.id \in UnknownIds
    /\ push.message.shape = "event"
    /\ refreshScheduled = 0

(***************************************************************************)
(* Properties of the token branch.                                         *)
(***************************************************************************)
\* The positions of a step in the cycle's trace.
TraceAt(step) == {i \in 1..Len(cycle.trace) : cycle.trace[i] = step}

\* Every occurrence of `later` in the trace has an occurrence of `earlier` before it.
Precedes(earlier, later) ==
    \A i \in TraceAt(later) : \E j \in TraceAt(earlier) : j < i

\* C13: in every cycle the validity check precedes the polls; after a check
\* that found the token expired, the refresh and the hand-over of the new token
\* to the API client precede every poll, the old channel is disconnected before
\* the new one is connected, the new channel holds the new token, and no poll
\* is issued with the token found expired.
TokenRefreshOrdering ==
    /\ Precedes("is_token_valid", "poll")
    /\ cycle.foundExpired # 0 =>
          /\ Precedes("refresh_access_token", "update_token")
          /\ Precedes("update_token", "poll")
          /\ Precedes("update_token", "disconnect")
          /\ Precedes("disconnect", "connect")
          /\ Precedes("connect", "poll")
          /\ TraceAt("connect") # {} => tokens.ws = tokens.auth /\ tokens.ws # cycle.foundExpired
          /\ TraceAt("connect") = {} /\ TraceAt("poll") # {} => websocket = "none"
          /\ cycle.foundExpired \notin cycle.pollTokens
          /\ cycle.pollTokens \subseteq {tokens.auth}

\* C13: a cycle found the token expired, refreshed it, reconnected the push
\* channel and polled a unit.
TokenRefreshOrderingWitness ==
    /\ cycle.foundExpired # 0
    /\ cycle.result = "returned"
    /\ websocket = "connected"
    /\ cycle.trace = <<"is_token_valid", "refresh_access_token", "update_token",
                       "disconnect", "connect", "poll">>

(***************************************************************************)
(* Properties of discovery.                                                *)
(***************************************************************************)
\* The ids of the enumerated devices that have an id and a name, among the
\* first n devices of the response.
NamedIds(n) ==
    {cycle.devices[i].id : i \in {j \in 1..n : /\ j <= Len(cycle.devices)
                                               /\ cycle.devices[j].id # ""
                                               /\ cycle.devices[j].name # ""}}

\* The devices the discovery loop has gone through.
Discovered == Len(cycle.devices) - (IF pc = "initial_fetch" THEN Len(queue) ELSE 0)

\* The discovery loop is running or has just ended: no poll has touched the units.
InDiscovery == pc \in {"initial_fetch", "connect"} /\ cycle.devices # <<>>

\* C14: every enumerated device with an id and a name is registered whatever
\* its initial fetch did; the fetch is attempted at most 3 times; a fetch that
\* failed twice and then succeeded has its status merged; a fetch that failed
\* on every attempt leaves the unit with its default fields; and no failure
\* of a fetch ends the discovery loop or the cycle.
DiscoveryToleratesFetchFailure ==
    InDiscovery =>
        /\ cycle.raisedBy = ""
        /\ cycle.result = "running"
        /\ DOMAIN units = NamedIds(Discovered)
        /\ DOMAIN cycle.initial = NamedIds(Discovered)
        /\ \A id \in DOMAIN cycle.initial :
              LET f == cycle.initial[id]
              IN  /\ f.run.calls <= 3
                  /\ f.run.outcome = "returned"
                        => units[id] = update_from_api(NewUnit, f.status)
                  /\ f.run.outcome = "raised" => units[id] = NewUnit

\* C14: discovery ended with two units registered, the first after a fetch
\* that failed on its three attempts, the second after a fetch that failed
\* twice and then succeeded.
DiscoveryToleranceWitness ==
    /\ pc = "connect"
    /\ DOMAIN cycle.initial = {"u1", "u2"}
    /\ DOMAIN units = {"u1", "u2"}
    /\ cycle.initial["u1"].run.outcome = "raised"
    /\ cycle.initial["u1"].run.calls = 3
    /\ units["u1"] = NewUnit
    /\ cycle.initial["u2"].run.outcome = "returned"
    /\ cycle.initial["u2"].run.calls = 3
    /\ cycle.initial["u2"].run.sleeps = 2
    /\ units["u2"] = update_from_api(NewUnit, cycle.initial["u2"].status)

\* The two envelopes that carry a list of devices.
Envelopes == {"GetAccountDevices", "account.devices"}

\* C15: discovery takes the devices of either envelope, and for every other
\* response of get_account_devices registers no unit and lets the cycle
\* complete.
EnvelopeShapesTolerated ==
    cycle.shape \notin {"", "raises"} =>
        /\ ~CycleFailed
        /\ cycle.shape \in Envelopes /\ pc = "connect"
              => DOMAIN units = NamedIds(Len(cycle.devices))
        /\ cycle.shape \notin Envelopes
              => /\ units = EmptyDict
                 /\ pc = "idle" => cycle.result = "returned"

\* The responses that are handled as the claim says: the cycle completes with
\* the devices of the envelope, or with none.
EnvelopeShapesButNull ==
    cycle.shape \notin {"", "raises", "data_null"} =>
        /\ ~CycleFailed
        /\ cycle.shape \in Envelopes /\ pc = "connect"
              => DOMAIN units = NamedIds(Len(cycle.devices))
        /\ cycle.shape \notin Envelopes
              => /\ units = EmptyDict
                 /\ pc = "idle" => cycle.result = "returned"

\* C15: get_account_devices answered with "data": null and the cycle ended
\* with a TypeError, after the API session was created.
NullDataFailsCycle ==
    /\ cycle.shape = "data_null"
    /\ cycle.enumOut = "ok"
    /\ cycle.result = "raised"
    /\ cycle.raisedBy = "devices_response"
    /\ pc = "idle"
    /\ api
    /\ units = EmptyDict

\* C16: units are created once.  Every registered id maps to one object and
\* no object was ever constructed for an id that had one; the registry and
\* the objects change only in a step of the discovery loop of the cycle that
\* created the API session, for an id not yet registered; every other step
\* (a later cycle, a poll, a push message, a command) leaves the ids and the
\* objects as they are.
UnitsCreatedOnce ==
    /\ [](/\ DOMAIN units = DOMAIN objects.of
          /\ objects.made = Cardinality(DOMAIN objects.of))
    /\ [][(objects' # objects \/ DOMAIN units' # DOMAIN units)
            => /\ pc = "initial_fetch"
               /\ cycle.authOut = "ok"
               /\ queue # <<>>
               /\ Head(queue).id \notin DOMAIN units
               /\ DOMAIN units' = DOMAIN units \cup {Head(queue).id}]_vars

\* C16: a cycle after the one that created the session has polled the two
\* units and changed one, and the objects are those discovery constructed.
UnitsCreatedOnceWitness ==
    /\ ncycles = 2
    /\ cycle.authOut = ""
    /\ cycle.result = "returned"
    /\ cycle.polled = {"u1", "u2"}
    /\ cycle.prePoll # units
    /\ objects = [of |-> [u \in {"u1", "u2"} |-> IF u = "u1" THEN 1 ELSE 2], made |-> 2]

(***************************************************************************)
(* Properties of the stored durations and of teardown.                     *)
(***************************************************************************)
\* The mapping unit id -> mode_durations over the live units.
LiveDurations(us) == [u \in DOMAIN us |-> us[u].user_mode_times]

\* A step that runs async_load_stored_time_values.
LoadStep == last'.op = "load" /\ ncalls' = ncalls + 1

\* C17: the load is a per-key overwrite.  For each stored id that is
\* registered, the entries whose mode is stored take the stored value and
\* every other entry of the unit keeps its value; a unit whose id is not
\* stored is unchanged; a stored id that is not registered creates no unit;
\* an empty store changes nothing; no other field and not the store change.
LoadIsPerKeyOverwrite ==
    [][LoadStep =>
        /\ DOMAIN units' = DOMAIN units
        /\ store' = store
        /\ store.disk = EmptyDict => units' = units
        /\ \A u \in DOMAIN units :
            LET old == units[u].user_mode_times
                new == units'[u].user_mode_times
            IN  /\ units'[u].user_mode = units[u].user_mode
                /\ units'[u].airflow = units[u].airflow
                /\ units'[u].setpoint = units[u].setpoint
                /\ IF u \in DOMAIN store.disk
                   THEN /\ DOMAIN new = DOMAIN old \cup DOMAIN store.disk[u]
                        /\ \A k \in DOMAIN store.disk[u] : new[k] = store.disk[u][k]
                        /\ \A k \in DOMAIN old \ DOMAIN store.disk[u] : new[k] = old[k]
                   ELSE new = old]_vars

\* C17: a load from a store that holds a duration of the first unit and
\* durations of an unregistered id has set that duration and kept the 20
\* minutes the unit had for another mode.
LoadOverwriteWitness ==
    /\ last.op = "load"
    /\ last.arg = store.saved
    /\ DOMAIN store.disk = {"u1", "ghost"}
    /\ DOMAIN units = {"u1", "u2"}
    /\ units["u1"].user_mode_times["holiday"] = 60
    /\ last.pre["u1"].user_mode_times["holiday"] = 20
    /\ units["u1"].user_mode_times["away"] = 20
    /\ units["u2"] = last.pre["u2"]

\* C18: the load is idempotent.  For every stored mapping and all live units
\* two loads give what one load gives, and a load that follows a load with no
\* save in between changes no unit.
LoadIsIdempotent ==
    /\ [](LoadStoredTimeValues(LoadStoredTimeValues(units, store.disk), store.disk)
            = LoadStoredTimeValues(units, store.disk))
    /\ [][(LoadStep /\ last.op = "load" /\ last.arg = store.saved)
            => units' = units]_vars

\* C18: two loads have run in a row; the first brought the stored 30 minutes,
\* the second changed nothing.
LoadTwiceWitness ==
    /\ ncalls = 2
    /\ last.op = "load"
    /\ store.saved = 0
    /\ saveTasks = 0
    /\ last.pre = units
    /\ "u1" \in DOMAIN store.disk
    /\ "refresh" \in DOMAIN store.disk["u1"]
    /\ units["u1"].user_mode_times["refresh"] = 30

\* A step in which a command recorded a duration: set_user_mode_time returned
\* True, or set_mode_with_time returned True having sent a duration for a
\* timed mode.
MutationStep ==
    /\ ncalls' = ncalls + 1
    /\ last'.result
    /\ \/ last'.op = "set_user_mode_time"
       \/ /\ last'.op = "set_mode_with_time"
          /\ Len(last'.calls) = 1
          /\ last'.calls[1].b # None
          /\ ModeNameForKey(last'.arg) # ""

UnloadAt(events) == {i \in 1..Len(unload.order) : unload.order[i] \in events}

\* C20: teardown ordering.  The final save is attempted, and has completed
\* or failed, before the push channel is disconnected and before the
\* coordinator is removed from the registry; a save that succeeded wrote the
\* durations of all units as they were when teardown began.
TeardownOrdering ==
    /\ \A i \in UnloadAt({"disconnect", "no_channel", "pop", "kept"}) :
          \E j \in UnloadAt({"save_ok", "save_failed"}) : j < i
    /\ websocket = "disconnected" => UnloadAt({"save_ok", "save_failed"}) # {}
    /\ ~registry => UnloadAt({"save_ok", "save_failed"}) # {}
    /\ Cardinality(UnloadAt({"save_ok", "save_failed"})) <= 1
    /\ UnloadAt({"save_ok"}) # {} => unload.written = LiveDurations(unload.pre)

\* C20: a duration was set, teardown saved it before the scheduled save ran,
\* disconnected the push channel and removed the coordinator.
TeardownWitness ==
    /\ unload.order = <<"save_ok", "disconnect", "pop">>
    /\ ~registry
    /\ websocket = "disconnected"
    /\ saveTasks = 1
    /\ last.op = "set_user_mode_time"
    /\ "u1" \in DOMAIN unload.written
    /\ unload.written["u1"]["refresh"] = 35
    /\ store.disk = unload.written


(***************************************************************************)
(* The lifecycle and the persistence failures.                             *)
(***************************************************************************)
SetupLoadFailed == \E i \in 1..Len(setup.order) : setup.order[i] = "load_failed"

UnloadSaveFailed == \E i \in 1..Len(unload.order) : unload.order[i] = "save_failed"

\* C21: a load of the duration store that raises does not end the set-up: the
\* platforms are forwarded next, then the services are set up and True is
\* returned; a final save that raises does not end the unload: the push
\* channel, when there is one, is disconnected next and then the platforms
\* are unloaded.
PersistenceFailuresDoNotBlock ==
    /\ SetupLoadFailed =>
          /\ setup.result \in {"none", "true"}
          /\ setup.at = 1 => ENABLED SetupPlatforms
          /\ setup.at = 2 => setup.order[2] = "platforms" /\ ENABLED SetupServices
          /\ setup.at = 3 => /\ setup.order = <<"load_failed", "platforms", "services">>
                              /\ setup.result = "true"
    /\ UnloadSaveFailed =>
          /\ unload.at = 1 => ENABLED UnloadDisconnect
          /\ unload.at >= 2 => /\ unload.order[2] \in {"disconnect", "no_channel"}
                                /\ unload.order[2] = "no_channel" <=> websocket = "none"
                                /\ websocket \in {"none", "disconnected"}
          /\ unload.at = 2 => ENABLED UnloadPlatforms
          /\ unload.at = 3 => unload.order[3] \in {"pop", "kept"}

\* A set-up whose load failed has returned True, and the unload after it,
\* whose save failed, has disconnected the channel and unloaded the platforms.
PersistenceFailuresWitness ==
    /\ SetupLoadFailed
    /\ setup.result = "true"
    /\ UnloadSaveFailed
    /\ unload.at = 3
    /\ unload.order = <<"save_failed", "disconnect", "pop">>
    /\ websocket = "disconnected"


(***************************************************************************)
(* Airflow levels.                                                         *)
(***************************************************************************)
\* max(1, min(5, x)) as a relation: the level in 1..5 nearest to x.
Clamped(x) == CHOOSE v \in 1..5 : \A w \in 1..5 : (v - x) * (v - x) <= (w - x) * (w - x)

AirflowOps == {"set_fan_speed", "airflow_select_manual", "airflow_select", "climate_fan_mode"}

\* The set_value calls of the last command.
SetValueCalls == {i \in 1..Len(last.calls) : last.calls[i].fn = "set_value"}

\* C22: set_fan_speed called with x on a registered unit sends
\* max(1, min(5, x)) in its one set_value call and, when the call succeeds,
\* the unit's airflow is that value; every level a command or an entity
\* adapter sends or writes is in 1..5.
AirflowClamp ==
    /\ (last.op = "set_fan_speed" /\ last.unit \in DOMAIN last.pre /\ api) =>
          /\ Len(last.calls) = 1
          /\ last.calls[1].fn = "set_value"
          /\ last.calls[1].b = Clamped(last.arg)
          /\ last.result => units[last.unit].airflow = Clamped(last.arg)
    /\ last.op \in AirflowOps =>
          /\ \A i \in SetValueCalls : last.calls[i].b \in 1..5
          /\ \A u \in DOMAIN units \cap DOMAIN last.pre :
                units[u].airflow # last.pre[u].airflow => units[u].airflow \in 1..5

\* set_fan_speed was given a level above the range and one below it, and the
\* unit shows the clamped level.
AirflowClampWitness ==
    /\ last.op = "set_fan_speed"
    /\ last.result
    /\ last.arg = 6
    /\ last.unit \in DOMAIN units
    /\ units[last.unit].airflow = 5
    /\ last.pre[last.unit].airflow = 3


(***************************************************************************)
(* The keys of user_mode_times.                                            *)
(***************************************************************************)
\* C23: every key of every unit's user_mode_times is one of holiday, away,
\* fireplace, refresh, crowded.
ModeDurationKeysAreTimed ==
    \A u \in DOMAIN units : DOMAIN units[u].user_mode_times \subseteq TimedKeys

\* set_user_mode_time returned True for the mode argument "manual" and the
\* unit's user_mode_times has that key.
ForeignKeyWritten ==
    /\ last.op = "set_user_mode_time"
    /\ last.result
    /\ last.key = "manual"
    /\ last.unit \in DOMAIN units
    /\ "manual" \in DOMAIN units[last.unit].user_mode_times
    /\ "manual" \notin DOMAIN last.pre[last.unit].user_mode_times

\* A load wrote a stored key that is not a timed mode name.
ForeignKeyLoaded ==
    /\ last.op = "load"
    /\ "u1" \in DOMAIN units
    /\ "manual" \in DOMAIN units["u1"].user_mode_times
    /\ "manual" \notin DOMAIN last.pre["u1"].user_mode_times

\* Activating Auto or Manual through set_mode or set_mode_with_time leaves
\* every unit's user_mode_times as it was.
AutoManualLeaveDurations ==
    (last.op \in {"set_mode", "set_mode_with_time"} /\ last.arg \in {MODE_AUTO, MODE_MANUAL}) =>
        \A u \in DOMAIN units : units[u].user_mode_times = last.pre[u].user_mode_times


(***************************************************************************)
(* What each command leaves alone.                                         *)
(***************************************************************************)
\* The units the last command could have touched, before and after.
Kept(field(_)) ==
    /\ DOMAIN units = DOMAIN last.pre
    /\ \A u \in DOMAIN units : field(units[u]) = field(last.pre[u])

ModeOf(unit) == unit.user_mode
AirflowOf(unit) == unit.airflow
SetpointOf(unit) == unit.setpoint
DurationsOf(unit) == unit.user_mode_times

ModeCommands == {"set_user_mode"}

\* C24: set_fan_speed leaves every unit's mode, setpoint and durations as
\* they were and makes no set_user_mode call; set_mode and set_mode_with_time
\* leave airflow and setpoint as they were; set_temperature leaves mode,
\* airflow and durations as they were.
CommandsAreOrthogonal ==
    /\ last.op = "set_fan_speed" =>
          /\ Kept(ModeOf) /\ Kept(SetpointOf) /\ Kept(DurationsOf)
          /\ \A i \in 1..Len(last.calls) : last.calls[i].fn \notin ModeCommands
          /\ saveTasks = last.preSaves
    /\ last.op \in {"set_mode", "set_mode_with_time"} =>
          Kept(AirflowOf) /\ Kept(SetpointOf)
    /\ last.op = "set_temperature" =>
          Kept(ModeOf) /\ Kept(AirflowOf) /\ Kept(DurationsOf)

\* set_fan_speed changed the level of a unit that is in Auto.
FanSpeedInAutoWitness ==
    /\ last.op = "set_fan_speed"
    /\ last.result
    /\ last.unit \in DOMAIN units
    /\ units[last.unit].airflow # last.pre[last.unit].airflow
    /\ units[last.unit].user_mode = MODE_AUTO


(***************************************************************************)
(* The implicit switch to Manual.                                          *)
(***************************************************************************)
ManualLevels == {2, 3, 4}

ModeCalls == {i \in 1..Len(last.calls) : last.calls[i].fn = "set_user_mode"}

\* The last entity call selected a manual level on the unit through one of `ops`.
ManualLevelSelected(ops) ==
    /\ last.op \in ops
    /\ last.arg \in ManualLevels
    /\ last.unit \in DOMAIN last.pre
    /\ last.unit \in DOMAIN units

\* What the implicit switch asks of the last call: not in Manual, the first
\* call is a Manual-mode command; an airflow command comes after a mode
\* command that returned a truthy result; without one, no airflow command
\* and the level as it was.  In Manual, no mode command.
SwitchesToManualFirst ==
    IF last.pre[last.unit].user_mode # MODE_MANUAL
    THEN /\ Len(last.calls) >= 1
         /\ last.calls[1].fn = "set_user_mode"
         /\ \A i \in ModeCalls : last.calls[i].a = MODE_MANUAL
         /\ \A i \in SetValueCalls :
                /\ i - 1 \in ModeCalls
                /\ last.calls[i - 1].out = "true"
         /\ (\A i \in ModeCalls : last.calls[i].out # "true") =>
                /\ SetValueCalls = {}
                /\ units[last.unit].airflow = last.pre[last.unit].airflow
    ELSE ModeCalls = {}

\* C25: a manual airflow level selected through the airflow select or the
\* fan mode of the climate entity, on a unit that is not in Manual, issues a
\* Manual-mode command first and the airflow command only after it
\* succeeded; a failed mode command means no airflow command and an
\* unchanged level; in Manual no mode command is issued.
ImplicitManualSwitch ==
    ManualLevelSelected({"airflow_select_manual", "climate_fan_mode"}) => SwitchesToManualFirst

\* The same for the airflow select alone.
SelectSwitchesToManual ==
    ManualLevelSelected({"airflow_select_manual"}) => SwitchesToManualFirst

\* The fan mode of the climate entity changed the level of a unit in Auto
\* with a single set_value call and no mode command.
FanModeSkipsManual ==
    /\ ManualLevelSelected({"climate_fan_mode"})
    /\ last.pre[last.unit].user_mode = MODE_AUTO
    /\ units[last.unit].user_mode = MODE_AUTO
    /\ Len(last.calls) = 1
    /\ last.calls[1].fn = "set_value"
    /\ last.result
    /\ units[last.unit].airflow = 4
    /\ last.pre[last.unit].airflow = 3


(***************************************************************************)
(* set_user_mode_time.                                                     *)
(***************************************************************************)
\* The step is a call of set_user_mode_time.
SetUserModeTimeStep == ncalls' = ncalls + 1 /\ last'.op = "set_user_mode_time"

\* C26: a call of set_user_mode_time on a registered unit sets
\* user_mode_times[mode] to the given minutes and nothing else of any unit,
\* schedules one save, returns True and makes no remote call; on an unknown
\* unit it returns False, changes no unit and schedules nothing.
SetUserModeTimeIsLocal ==
    [][SetUserModeTimeStep =>
        /\ last'.calls = <<>>
        /\ UNCHANGED <<api, store, websocket, tokens, entryData>>
        /\ IF last'.unit \in DOMAIN units
           THEN /\ last'.result
                /\ saveTasks' = saveTasks + 1
                /\ DOMAIN units' = DOMAIN units
                /\ \A u \in DOMAIN units \ {last'.unit} : units'[u] = units[u]
                /\ LET before == units[last'.unit]
                       after == units'[last'.unit]
                   IN  /\ after.user_mode = before.user_mode
                       /\ after.airflow = before.airflow
                       /\ after.setpoint = before.setpoint
                       /\ DOMAIN after.user_mode_times =
                              DOMAIN before.user_mode_times \cup {last'.key}
                       /\ after.user_mode_times[last'.key] = last'.time
                       /\ \A k \in DOMAIN before.user_mode_times \ {last'.key} :
                              after.user_mode_times[k] = before.user_mode_times[k]
           ELSE /\ ~last'.result
                /\ units' = units
                /\ saveTasks' = saveTasks]_vars

\* set_user_mode_time stored 35 minutes for refresh on a unit that had 20,
\* after an earlier call.
SetUserModeTimeWitness ==
    /\ last.op = "set_user_mode_time"
    /\ last.result
    /\ last.key = "refresh"
    /\ last.unit \in DOMAIN units
    /\ last.unit \in DOMAIN last.pre
    /\ last.pre[last.unit].user_mode_times["refresh"] = 20
    /\ units[last.unit].user_mode_times["refresh"] = 35
    /\ saveTasks = last.preSaves + 1
    /\ ncalls = 2


(***************************************************************************)
(* Attempts of a command against attempts of a fetch.                      *)
(***************************************************************************)
\* coordinator.py 154: retry_with_backoff(fetch_status, max_retries=2).
DiscoveryFetchAttempts == RetryWithBackoff(<<"timeout", "timeout", "timeout">>, 2).calls

\* coordinator.py 294: retry_with_backoff(fetch_unit_status, max_retries=3, base_delay=2).
PollFetchAttempts ==
    RetryWithBackoff(<<"timeout", "timeout", "timeout", "timeout">>, 3).calls

CommandOps == {"set_mode", "set_mode_with_time", "set_fan_speed", "set_temperature"}

\* The last command reached the remote and every call it made was refused
\* with a transient error.
KeptFailing ==
    /\ last.op \in CommandOps
    /\ last.calls # <<>>
    /\ \A i \in 1..Len(last.calls) : last.calls[i].out = "server_busy"

\* C27: a command whose remote call keeps failing with a transient error
\* makes strictly more attempts than a discovery-time status fetch and than
\* a steady-state poll fetch.
CommandsGetMostAttempts ==
    KeptFailing =>
        /\ Len(last.calls) > DiscoveryFetchAttempts
        /\ Len(last.calls) > PollFetchAttempts

\* set_fan_speed gave up after one refused call.
CommandGaveUpAfterOneCall ==
    /\ KeptFailing
    /\ last.op = "set_fan_speed"
    /\ Len(last.calls) = 1
    /\ ~last.result
    /\ units = last.pre

\* What the code does: set_mode of Auto or Manual makes as many attempts as
\* a poll fetch; the other commands make one.
CommandAttemptsAsCoded ==
    KeptFailing =>
        IF last.op = "set_mode" /\ last.arg \notin timed_modes
        THEN Len(last.calls) = PollFetchAttempts
        ELSE Len(last.calls) = 1


(***************************************************************************)
(* Configured defaults in minutes.                                         *)
(***************************************************************************)
TimedKeyOf(mode) ==
    CASE mode = MODE_HOLIDAY -> "holiday"
      [] mode = MODE_AWAY -> "away"
      [] mode = MODE_FIREPLACE -> "fireplace"
      [] mode = MODE_REFRESH -> "refresh"
      [] mode = MODE_CROWDED -> "crowded"

\* The last call is set_mode_with_time of a timed mode on a registered unit,
\* with no explicit duration, no stored one, and a configured default.
DefaultResolved ==
    /\ last.op = "set_mode_with_time"
    /\ last.time = None
    /\ last.arg \in timed_modes
    /\ last.unit \in DOMAIN last.pre
    /\ last.unit \in DOMAIN units
    /\ api
    /\ DictGet(last.pre[last.unit].user_mode_times, TimedKeyOf(last.arg)) = None
    /\ entryData # EmptyDict

ResolvedDefault == DefaultMinutes(last.arg)

DefaultRecorded ==
    /\ TimedKeyOf(last.arg) \in DOMAIN units[last.unit].user_mode_times
    /\ units[last.unit].user_mode_times[TimedKeyOf(last.arg)] = ResolvedDefault
    /\ saveTasks = last.preSaves + 1

FallbackRecordsNothing ==
    /\ DefaultResolved
    /\ last.result
    /\ Len(last.calls) = 2
    /\ last.calls[1].out = "type_error"
    /\ last.calls[2].b = None
    /\ units[last.unit].user_mode = last.arg
    /\ units[last.unit].user_mode_times = last.pre[last.unit].user_mode_times
    /\ saveTasks = last.preSaves


(***************************************************************************)
(* Validation of the configured defaults.                                  *)
(***************************************************************************)
\* The range of each default, in its own unit.
InRange(mode_key, value) ==
    CASE mode_key = "holiday" -> value \in 1..30
      [] mode_key = "away" -> value \in 1..24
      [] mode_key = "fireplace" -> value \in 1..120
      [] mode_key = "refresh" -> value \in 1..120
      [] mode_key = "crowded" -> value \in 1..12

DefaultEditOps == {"number_set_native_value", "flow_durations"}

DefaultEditStep == ncalls' = ncalls + 1 /\ last'.op \in DefaultEditOps

\* C29: the durations step of the flows and the number entity accept a
\* value for a mode exactly when it lies in the mode's range; a rejected
\* value leaves the entry's data and the flow's duration data as they were,
\* and an accepted one is what the number entity writes and the flow keeps.
DefaultValidationAgrees ==
    /\ [](last.op \in DefaultEditOps => (last.result <=> InRange(last.key, last.arg)))
    /\ [][DefaultEditStep =>
            IF last'.result
            THEN IF last'.op = "number_set_native_value"
                 THEN /\ entryData'["duration_" \o last'.key] = last'.arg
                      /\ \A k \in DOMAIN entryData \ {"duration_" \o last'.key} :
                            entryData'[k] = entryData[k]
                 ELSE /\ flow'.duration_data["duration_" \o last'.key] = last'.arg
                      /\ entryData' = entryData
            ELSE /\ entryData' = entryData
                 /\ flow'.duration_data = flow.duration_data]_vars

\* Crowded 13, in the range of away but not of crowded, was rejected and the
\* entry holds the defaults it held.
CrowdedThirteenRejected ==
    /\ last.op \in DefaultEditOps
    /\ last.key = "crowded"
    /\ last.arg = 13
    /\ ~last.result
    /\ entryData = ConfigDefaults


(***************************************************************************)
(* The delays of retry_with_backoff.                                       *)
(***************************************************************************)
Timed == probe.timing # NoTiming

Least(a, b) == IF a < b THEN a ELSE b

\* base * 2^a in tenths of a second, a counted from 0.
Exponential(a) == probe.timing.base_delay * 10 * (2 ^ a)

Cap == probe.timing.max_delay * 10

\* C30: the delay slept after failed attempt a (from 0) is
\* min(base * 2^a + jitter, max_delay) with the jitter between 0 and 1 second;
\* it is at most max_delay and at least min(base * 2^a, max_delay); a delay
\* is slept only after an attempt that is not the last one and whose error
\* is not an authentication error, and after each such attempt before the
\* call that ended the run.
BackoffBound ==
    Timed =>
        LET delays == probe.timing.delays
        IN  /\ Len(delays) = probe.run.calls - 1
            /\ Len(delays) <= probe.max_retries
            /\ \A i \in 1..Len(delays) :
                  LET a == i - 1
                      jitter == probe.timing.jitters[i]
                  IN  /\ jitter >= 0 /\ jitter <= 10
                      /\ delays[i] = Least(Exponential(a) + jitter, Cap)
                      /\ delays[i] <= Cap
                      /\ delays[i] >= Least(Exponential(a), Cap)
                      /\ a < probe.max_retries
                      /\ probe.script[i] \in ErrorNames \ AuthErrors

\* Three timeouts with base 2 and cap 3: the first delay is 2 s and the
\* jitter, the second is the cap; the fourth attempt raised and nothing was
\* slept after it.
BackoffBoundWitness ==
    /\ Timed
    /\ probe.max_retries = 3
    /\ probe.timing.base_delay = 2
    /\ probe.timing.max_delay = 3
    /\ probe.run.outcome = "raised"
    /\ probe.run.calls = 4
    /\ Len(probe.timing.delays) = 3
    /\ probe.timing.delays[1] = 25
    /\ probe.timing.delays[2] = 30

(***************************************************************************)
(* Properties of the ids in the store.                                     *)
(***************************************************************************)
\* C36: a save writes exactly the live units.  Once a save has run, the ids
\* of the stored mapping are the ids of the registered units, and an entry
\* the store held for an id that is not registered is gone.
SaveWritesLiveUnits ==
    store.saved > 0 =>
        /\ DOMAIN store.disk = DOMAIN units
        /\ DOMAIN store.disk \cap UnknownIds = {}

\* C36: the store held durations of the first unit and of an id that is not
\* registered; the load applied the first unit's, and after a save the store
\* holds the two registered units and nothing else.
UnregisteredEntryDropped ==
    /\ store.saved > 0
    /\ last.op # "none"
    /\ "u1" \in DOMAIN units
    /\ DictGet(units["u1"].user_mode_times, "holiday") = 60
    /\ DOMAIN store.disk = {"u1", "u2"}
    /\ DictGet(store.disk["u1"], "holiday") = 60

(***************************************************************************)
(* Properties of the push channel's lifetime.                              *)
(***************************************************************************)
\* async_unload_entry has run all its steps.
Unloaded == unload.at = Len(UnloadSteps)

\* C37: one push channel per coordinator.  A reconnect after a token refresh
\* connects the new channel only after the disconnect of the one before, and
\* once async_unload_entry has run no channel of the coordinator is connected.
OneChannelPerCoordinator ==
    /\ \A i \in 1..Len(cycle.trace) :
          cycle.trace[i] = "connect" => (i > 1 /\ cycle.trace[i - 1] = "disconnect")
    /\ Unloaded => websocket # "connected"

\* C37: a refresh cycle found the token expired and was awaiting the new
\* token when async_unload_entry saved, disconnected the channel and removed
\* the coordinator; the cycle then disconnected the old channel again,
\* created a channel with the new token and connected it: a channel of the
\* unloaded coordinator is connected.
ChannelConnectedAfterUnload ==
    /\ unload.order = <<"save_ok", "disconnect", "pop">>
    /\ ~registry
    /\ pc = "idle"
    /\ cycle.result = "returned"
    /\ cycle.trace = <<"is_token_valid", "refresh_access_token", "update_token",
                       "disconnect", "connect", "poll", "poll">>
    /\ tokens.ws = tokens.auth
    /\ websocket = "connected"

(***************************************************************************)
(* Properties of the numbers of remote attempts.                           *)
(***************************************************************************)
\* The attempts of the last command end with the first one that returned.
StopsAtFirstReturn == \A i \in 1..(Len(last.calls) - 1) : IsError(last.calls[i].out)

\* The attempts of a command that goes through set_mode_with_time: one, or
\* two when the first raised a TypeError.
TimedAttempts ==
    /\ Len(last.calls) \in 0..2
    /\ Len(last.calls) = 2 <=> (last.calls # <<>> /\ last.calls[1].out = "type_error")

\* C38: every operation makes a bounded number of remote attempts and ends.
\* In a refresh cycle the initial fetch of a device is attempted at most 3
\* times, the connect of the push channel at most 3 times, the poll of a unit
\* at most 4 times, and a running cycle always has a next step, which
\* consumes its queue or moves it on.  set_mode for Auto and Manual makes at
\* most 4 attempts and stops at the first that returns; set_mode_with_time
\* (and set_mode for a timed mode) makes one attempt, two when the first
\* raises TypeError; set_fan_speed and set_temperature make at most one.
BoundedAttempts ==
    /\ \A d \in DOMAIN cycle.initial : cycle.initial[d].run.calls \in 1..3
    /\ cycle.pushAttempts \in 0..3
    /\ (lastRun.fn = "fetch_device_status" /\ lastRun.unit \in cycle.polled) =>
          lastRun.run.calls \in 1..4
    /\ lastRun.run.outcome \in {"none", "returned", "raised"}
    /\ pc # "idle" => ENABLED NextCycle
    /\ pc \in {"initial_fetch", "poll"} => Len(queue) <= Cardinality(UnitIds)
    /\ (last.op = "set_mode" /\ last.arg \notin timed_modes) =>
          /\ Len(last.calls) \in 0..4
          /\ StopsAtFirstReturn
    /\ (last.op = "set_mode" /\ last.arg \in timed_modes) => TimedAttempts
    /\ last.op = "set_mode_with_time" => TimedAttempts
    /\ last.op \in {"set_fan_speed", "set_temperature"} => Len(last.calls) \in 0..1

\* C38: set_mode for Manual met a busy device on its first attempt and a
\* falsy answer on its second, and stopped there with False.
StoppedAtFalsyAnswer ==
    /\ last.op = "set_mode"
    /\ last.arg = MODE_MANUAL
    /\ Len(last.calls) = 2
    /\ last.calls[1].out = "server_busy"
    /\ last.calls[2].out = "false"
    /\ ~last.result
    /\ units = last.pre

\* C38: a cycle whose poll of the second unit failed on each of its four
\* attempts returned its data.
FourPollAttempts ==
    /\ pc = "idle"
    /\ cycle.result = "returned"
    /\ lastRun.fn = "fetch_device_status"
    /\ lastRun.unit \in cycle.pollFailed
    /\ lastRun.run.calls = 4
    /\ lastRun.run.outcome = "raised"

(***************************************************************************)
(* Properties of the configured defaults over several activations.         *)
(***************************************************************************)
\* set_mode_with_time was called in this step, without a duration, and made
\* its remote call.
ActivationStep ==
    /\ ncalls' = ncalls + 1
    /\ last'.op = "set_mode_with_time"
    /\ last'.time = None
    /\ last'.calls # <<>>

\* C35: a changed configured default takes effect.  With no duration stored
\* by the user, every activation of a timed mode without an explicit duration
\* sends the configured default in force at that activation.
ChangedDefaultTakesEffect ==
    [][ActivationStep => last'.calls[1].b = DefaultMinutes(last'.arg)]_vars

\* C35: the mode was activated with the default of that moment, the default
\* was then changed through the number entity, and the next activation sent
\* the duration the first activation had recorded, not the default in force.
FirstDefaultSticks ==
    /\ last.op = "set_mode_with_time"
    /\ last.time = None
    /\ last.result
    /\ last.calls # <<>>
    /\ last.unit \in DOMAIN last.pre
    /\ StoredBefore # None
    /\ last.calls[1].b = StoredBefore
    /\ last.calls[1].b # DefaultMinutes(last.arg)

(***************************************************************************)
(* Properties of the services with several entries.                        *)
(***************************************************************************)
\* The entry whose coordinator has the unit, "" when none has.
EntryOf(unit_id) ==
    IF \E e \in EntryIds : unit_id \in EntryUnits[e]
    THEN CHOOSE e \in EntryIds : unit_id \in EntryUnits[e]
    ELSE ""

\* C39: services stay usable for every loaded entry.  While an entry is
\* loaded (set up, and no unload of it started) the four services are
\* registered, and a call for an entity of a unit of a loaded entry is handled
\* by that entry's coordinator.
ServicesStayUsable ==
    /\ services.loaded \ services.failed # {} => services.registered = ServiceNames
    /\ (services.call.result # "none" /\ EntryOf(services.call.unit) \in services.call.loaded) =>
          /\ services.call.result = "handled"
          /\ services.call.by = EntryOf(services.call.unit)

\* C39: with both entries loaded, a call for an entity of the first entry's
\* unit reached the handler of the entry set up last, which has no such unit
\* and did nothing.
CallReachesWrongCoordinator ==
    /\ services.loaded = EntryIds
    /\ services.failed = {}
    /\ services.handler = "e2"
    /\ services.registered = ServiceNames
    /\ services.call.loaded = EntryIds
    /\ services.call.unit = "u1"
    /\ services.call.result = "no_unit"

\* C39: the second entry was unloaded; the first is loaded and a call for an
\* entity of its unit finds no service.
ServicesGoneAfterUnload ==
    /\ services.loaded = {"e1"}
    /\ services.failed = {}
    /\ services.registered = {}
    /\ services.call.loaded = {"e1"}
    /\ services.call.unit = "u1"
    /\ services.call.result = "not_found"

====
